---- MODULE Spec2Model ----
(***************************************************************************)
(* Orchestration layer of the video compressor: compress_video of          *)
(* videocompress.py (variant "videocompress") and of its older sibling     *)
(* 50mb.py (variant "fifty"), with the external ffmpeg/ffprobe processes,  *)
(* the monitor threads and the file system as the environment (Spec).      *)
(* The helpers compress_video builds on are exercised on their own over    *)
(* bounded inputs: the prober get_video_info (SpecProbe), the split        *)
(* planner get_smart_split_point (SpecSplit), the bitrate allocation       *)
(* (SpecAlloc), the ProgressTracker (SpecTracker), one line of             *)
(* monitor_process (SpecMonitor), the tracker's lock under interleaved     *)
(* threads (SpecLock), the cleanup run twice (SpecCleanup) and the files   *)
(* of two jobs running side by side (SpecJobs), get_stats over speeds that *)
(* do not divide the remaining time (SpecStats), the trackers of the two   *)
(* passes (SpecPhases) and the orchestration under fair scheduling         *)
(* (SpecFair).                                                             *)
(***************************************************************************)
EXTENDS Integers, Sequences, FiniteSets, TLC

VARIABLES
    variant,         \* which script runs: "videocompress" or "fifty"
    platform,        \* sys.platform
    target_size_mb,  \* argument of compress_video
    orig_bytes,      \* get_file_size(input_path), 0 until probed
    pc,              \* position of the main thread
    phase,           \* "none", "pass1", "pass2" or "hw": the split encode phase
    pending,         \* return/raise in flight while finally blocks run
    ret,             \* what compress_video returned or raised
    exit_code,       \* exit status of the command-line entry point
    active_encoder,  \* result of select_best_encoder / check_nvenc_available
    probe_log,       \* the candidates probed by check_encoder_available, in order
    probe_out,       \* outcome of the latest capability probe
    proc,            \* child processes: id -> [st, rc]
    launched,        \* child processes: id -> number of Popen/run calls
    pa, pb,          \* the Python variables pa and pb (a process id or "unbound")
    mon,             \* monitor threads t1, t2: "A"/"B" -> [st, of]
    temp_dir,        \* the job's temporary directory: "none", "exists", "removed"
    files,           \* files on disk: set of <<directory, stem, extension>>
    calls,           \* counters of helper invocations
    interrupted,     \* "no", or how a KeyboardInterrupt found the job: "live" with
                     \* a child process running, "idle" with none
    prober,          \* one get_video_info call: ffprobe's outputs and the outcome
    planner,         \* one get_smart_split_point call: packets and the outcome
    allocator,       \* one bitrate allocation: sizes, durations and bitrates
    tracker,         \* one ProgressTracker with its observer
    jobs             \* two compress_video runs side by side and their files

vars == <<variant, platform, target_size_mb, orig_bytes, pc, phase, pending, ret,
          exit_code, active_encoder, probe_log, probe_out, proc, launched,
          pa, pb, mon, temp_dir, files, calls, interrupted,
          prober, planner, allocator, tracker, jobs>>

\* the variables of the orchestration layer
vars_job == <<variant, platform, target_size_mb, orig_bytes, pc, phase, pending, ret,
              exit_code, active_encoder, probe_log, probe_out, proc, launched,
              pa, pb, mon, temp_dir, files, calls, interrupted>>

\* the variables of the helpers exercised on their own
units == <<prober, planner, allocator, tracker, jobs>>

\* a helper that is not being exercised
Idle == [at |-> "idle"]

----------------------------------------------------------------------------
(* Bounds of the model *)

\* target sizes 1..MaxTargetMb megabytes are tried
MaxTargetMb == 2

\* source sizes within SizeSlack bytes of the target size are tried
SizeSlack == 1

----------------------------------------------------------------------------
(* Program constants *)

MB_TO_BYTES == 1048576

\* a file is <<directory, stem, extension>>
LOG_FILES_TO_CLEAN ==
    { <<"cwd", "ffmpeg2pass", ".log">>, <<"cwd", "ffmpeg2pass", "-0.log">>,
      <<"cwd", "ffmpeg2pass", "-0.log.mbtree">> }

Variants == {"videocompress", "fifty"}

Platforms == {"linux", "darwin", "win32", "other"}

\* outcome of one synthetic test encode: exit 0, CalledProcessError,
\* FileNotFoundError (runtime missing), any other OSError
ProbeOutcomes == {"ok", "nonzero", "missing", "oserror"}

ProcIds == {"a1", "b1", "a2", "b2", "hw_a", "hw_b", "sw", "concat"}

NoProc == [st |-> "none", rc |-> 0]

NoRet == [kind |-> "none", ok |-> FALSE, msg |-> ""]

Return(ok, msg) == [kind |-> "return", ok |-> ok, msg |-> msg]

Raise(exc) == [kind |-> "raise", ok |-> FALSE, msg |-> exc]

----------------------------------------------------------------------------
(* File system helpers *)

\* where this job's segment files, manifest and pass logs live: the directory
\* made by tempfile.mkdtemp in videocompress.py, the working directory in 50mb.py
JobDir == IF variant = "videocompress" THEN "tmp" ELSE "cwd"

p1_path == <<JobDir, "p1", ".mp4">>

p2_path == <<JobDir, "p2", ".mp4">>

list_path == <<JobDir, "list", ".txt">>

output_path == <<"out", "output", ".mp4">>

log_a == "log_part1"

log_b == "log_part2"

\* the files ffmpeg derives from a -passlogfile prefix
PassLogs(d, prefix) == { <<d, prefix, "-0.log">>, <<d, prefix, "-0.log.mbtree">> }

\* the files a child process creates
Output(p) ==
    CASE p = "a1" -> PassLogs(JobDir, log_a)
      [] p = "b1" -> PassLogs(JobDir, log_b)
      [] p \in {"a2", "hw_a"} -> {p1_path}
      [] p \in {"b2", "hw_b"} -> {p2_path}
      [] OTHER -> {output_path}

DirExists(d) == d # "tmp" \/ temp_dir = "exists"

\* clean_log_file(prefixes): remove the fixed log names from the working
\* directory, then "<prefix>-0.log" and "<prefix>-0.log.mbtree" of each prefix
clean_log_file(fs, prefixes) ==
    fs \ (LOG_FILES_TO_CLEAN \cup UNION { PassLogs("cwd", p) : p \in prefixes })

\* shutil.rmtree(temp_dir): the directory and everything in it
rmtree(fs) == { f \in fs : f[1] # "tmp" }

Live(p) == proc[p].st \in {"running", "killed"}

----------------------------------------------------------------------------
(* State after the command line is parsed and before compress_video runs *)

Init ==
    /\ variant \in Variants
    /\ platform \in Platforms
    /\ target_size_mb \in 1..MaxTargetMb
    /\ orig_bytes = 0
    /\ pc = "start"
    /\ phase = "none"
    /\ pending = NoRet
    /\ ret = NoRet
    /\ exit_code = "unset"
    /\ active_encoder = "unset"
    /\ probe_log = << >>
    /\ probe_out = "unset"
    /\ proc = [p \in ProcIds |-> NoProc]
    /\ launched = [p \in ProcIds |-> 0]
    /\ pa = "unbound"
    /\ pb = "unbound"
    /\ mon = [s \in {"A", "B"} |-> [st |-> "none", of |-> "unbound"]]
    /\ temp_dir = "none"
    /\ files \in {{}, LOG_FILES_TO_CLEAN}   \* logs an earlier run may have left
    /\ calls = [split |-> 0, alloc |-> 0, mkdtemp |-> 0]
    /\ interrupted = "no"
    /\ jobs = Idle
    /\ prober = Idle
    /\ planner = Idle
    /\ allocator = Idle
    /\ tracker = Idle

inputs == <<variant, platform, target_size_mb>>

children == <<proc, launched, pa, pb, mon>>

probes == <<probe_log, probe_out>>

----------------------------------------------------------------------------
(* compress_video up to the choice of the encode path *)

\* a return statement outside every try block
Finish(r) == ret' = r /\ pc' = "returned" /\ UNCHANGED pending

\* compress_video: clean_log_file() on entry
Start ==
    /\ pc = "start"
    /\ files' = clean_log_file(files, {})
    /\ pc' = "check_input"
    /\ UNCHANGED <<units, inputs, orig_bytes, phase, pending, ret, exit_code,
                   active_encoder, probes, children, temp_dir, calls, interrupted>>

\* compress_video: if not os.path.exists(input_path): return False, ...
CheckInput ==
    /\ pc = "check_input"
    /\ \E exists \in BOOLEAN :
          IF exists
          THEN pc' = "get_info" /\ UNCHANGED <<ret, pending>>
          ELSE Finish(Return(FALSE, "Input not found"))
    /\ UNCHANGED <<units, inputs, orig_bytes, phase, exit_code, active_encoder, probes,
                   children, temp_dir, files, calls, interrupted>>

\* the file sizes tried: at, just below and just above the target size
SourceSizes == { target_size_mb * MB_TO_BYTES + d : d \in (0 - SizeSlack)..SizeSlack }

\* compress_video: info = get_video_info(input_path); if not info: return False, ...
GetVideoInfo ==
    /\ pc = "get_info"
    /\ \/ /\ Finish(Return(FALSE, "Failed to extract video info"))
          /\ UNCHANGED orig_bytes
       \/ /\ \E sz \in SourceSizes : orig_bytes' = sz
          /\ pc' = "size_check"
          /\ UNCHANGED <<ret, pending>>
    /\ UNCHANGED <<units, inputs, phase, exit_code, active_encoder, probes,
                   children, temp_dir, files, calls, interrupted>>

\* faulty version: a source exactly at the target size is compressed
AlreadySmaller_Strict(bytes, mb) == bytes < mb * MB_TO_BYTES

\* (orig_bytes / MB_TO_BYTES) <= target_size_mb; the division by 2^20 is exact
\* in binary floating point, so the comparison is the one on integers
AlreadySmaller(bytes, mb) == bytes <= mb * MB_TO_BYTES

\* compress_video: the "Already smaller" early return
SizeCheck ==
    /\ pc = "size_check"
    /\ IF AlreadySmaller(orig_bytes, target_size_mb)
       THEN Finish(Return(FALSE, "Already smaller"))
       ELSE pc' = "select" /\ UNCHANGED <<ret, pending>>
    /\ UNCHANGED <<units, inputs, orig_bytes, phase, exit_code, active_encoder, probes,
                   children, temp_dir, files, calls, interrupted>>

\* select_best_encoder: the candidates by platform; 50mb.py probes hevc_nvenc only
priority_chain ==
    IF variant = "fifty" THEN <<"hevc_nvenc">>
    ELSE CASE platform = "linux"  -> <<"hevc_nvenc", "hevc_vaapi">>
           [] platform = "darwin" -> <<"hevc_videotoolbox">>
           [] platform = "win32"  -> <<"hevc_nvenc", "hevc_amf", "hevc_qsv">>
           [] OTHER -> <<"hevc_nvenc", "hevc_vaapi", "hevc_videotoolbox",
                         "hevc_amf", "hevc_qsv">>

\* check_encoder_available: True when the test encode exits 0; CalledProcessError,
\* FileNotFoundError and OSError are caught and give False
check_encoder_available(outcome) ==
    IF outcome \in {"nonzero", "missing", "oserror"} THEN FALSE ELSE TRUE

\* faulty version: the loop has no early return
NextCandidate_NoEarlyReturn(i, available) == i < Len(priority_chain)

\* whether the loop of select_best_encoder goes on after candidate i was probed
\* as `available`
NextCandidate(i, available) == ~available /\ i < Len(priority_chain)

\* select_best_encoder: one iteration of "for enc in priority_chain";
\* probe_log keeps the candidates probed so far, probe_out the outcome of the
\* latest test encode
select_best_encoder ==
    /\ pc = "select"
    /\ LET i == Len(probe_log) + 1 IN
       \E o \in ProbeOutcomes :
          LET available == check_encoder_available(o) IN
          /\ probe_log' = Append(probe_log, priority_chain[i])
          /\ probe_out' = o
          /\ IF NextCandidate(i, available)
             THEN UNCHANGED <<pc, active_encoder>>
             ELSE /\ active_encoder' = IF available THEN priority_chain[i] ELSE "libx265"
                  /\ pc' = "dispatch"
    /\ UNCHANGED <<units, inputs, orig_bytes, phase, pending, ret, exit_code,
                   children, temp_dir, files, calls, interrupted>>

----------------------------------------------------------------------------
(* The three encode paths *)

\* faulty version: the software encoder is routed to the split path too
SplitHw_WithSoftware ==
    {"hevc_vaapi", "hevc_videotoolbox", "hevc_amf", "hevc_qsv", "libx265"}

\* the hardware encoders that get the split single-pass path
SplitHw == {"hevc_vaapi", "hevc_videotoolbox", "hevc_amf", "hevc_qsv"}

\* faulty version: the split single-pass path runs the pass-1 analysis commands
SegProc_HwAnalysis(ph, seg) ==
    CASE ph = "pass2" -> IF seg = "A" THEN "a2" ELSE "b2"
      [] OTHER        -> IF seg = "A" THEN "a1" ELSE "b1"

\* the process that encodes segment seg in phase ph: cmd_a1, cmd_b1, cmd_a2,
\* cmd_b2 of compress_video, cmd_a and cmd_b of encode_split_single_pass_hw
SegProc(ph, seg) ==
    CASE ph = "pass1" -> IF seg = "A" THEN "a1" ELSE "b1"
      [] ph = "pass2" -> IF seg = "A" THEN "a2" ELSE "b2"
      [] OTHER        -> IF seg = "A" THEN "hw_a" ELSE "hw_b"

\* compress_video, hevc_nvenc branch: split point, the two bitrates, the
\* temporary directory (50mb.py: clean_log_file([log_a, log_b]) in its place)
PrepareNvenc ==
    /\ pc = "dispatch"
    /\ active_encoder = "hevc_nvenc"
    /\ calls' = [calls EXCEPT !.split = @ + 1, !.alloc = @ + 2,
                              !.mkdtemp = IF variant = "videocompress" THEN @ + 1 ELSE @]
    /\ IF variant = "videocompress"
       THEN temp_dir' = "exists" /\ UNCHANGED files
       ELSE files' = clean_log_file(files, {log_a, log_b}) /\ UNCHANGED temp_dir
    /\ phase' = "pass1"
    /\ pc' = "launch_a"
    /\ UNCHANGED <<units, inputs, orig_bytes, pending, ret, exit_code, active_encoder,
                   probes, children, interrupted>>

\* compress_video, other hardware encoders: split point, the two bitrates, then
\* encode_split_single_pass_hw makes its temporary directory
PrepareHw ==
    /\ pc = "dispatch"
    /\ active_encoder \in SplitHw
    /\ calls' = [calls EXCEPT !.split = @ + 1, !.alloc = @ + 2, !.mkdtemp = @ + 1]
    /\ temp_dir' = "exists"
    /\ phase' = "hw"
    /\ pc' = "launch_a"
    /\ UNCHANGED <<units, inputs, orig_bytes, pending, ret, exit_code, active_encoder,
                   probes, children, files, interrupted>>

\* compress_video, else branch: one bitrate for the whole source
PrepareSw ==
    /\ pc = "dispatch"
    /\ active_encoder \notin {"hevc_nvenc"} \cup SplitHw
    /\ calls' = [calls EXCEPT !.alloc = @ + 1]
    /\ pc' = "sw_launch"
    /\ UNCHANGED <<units, inputs, orig_bytes, phase, pending, ret, exit_code, active_encoder,
                   probes, children, temp_dir, files, interrupted>>

\* subprocess.Popen(cmd): a new child process
Popen(p) ==
    /\ proc' = [proc EXCEPT ![p] = [st |-> "running", rc |-> 0]]
    /\ launched' = [launched EXCEPT ![p] = @ + 1]

\* pa = subprocess.Popen(cmd_a...)
LaunchA ==
    /\ pc = "launch_a"
    /\ Popen(SegProc(phase, "A"))
    /\ pa' = SegProc(phase, "A")
    /\ pc' = "launch_b"
    /\ UNCHANGED <<units, inputs, orig_bytes, phase, pending, ret, exit_code, active_encoder,
                   probes, pb, mon, temp_dir, files, calls, interrupted>>

\* pb = subprocess.Popen(cmd_b...)
LaunchB ==
    /\ pc = "launch_b"
    /\ Popen(SegProc(phase, "B"))
    /\ pb' = SegProc(phase, "B")
    /\ pc' = "threads"
    /\ UNCHANGED <<units, inputs, orig_bytes, phase, pending, ret, exit_code, active_encoder,
                   probes, pa, mon, temp_dir, files, calls, interrupted>>

\* t1 = Thread(monitor_process, (pa, ...)); t2 = ...(pb, ...); t1.start(); t2.start()
StartMonitors ==
    /\ pc = "threads"
    /\ mon' = [s \in {"A", "B"} |->
                 [st |-> "running", of |-> IF s = "A" THEN pa ELSE pb]]
    /\ pc' = "poll"
    /\ UNCHANGED <<units, inputs, orig_bytes, phase, pending, ret, exit_code, active_encoder,
                   probes, proc, launched, pa, pb, temp_dir, files, calls, interrupted>>

\* the loop condition "pa.poll() is None or pb.poll() is None"
PollPending(x, y) == proc[x].st # "exited" \/ proc[y].st # "exited"

\* the polling loop ends
PollLoop ==
    /\ pc = "poll"
    /\ ~PollPending(pa, pb)
    /\ pc' = "join"
    /\ UNCHANGED <<units, inputs, orig_bytes, phase, pending, ret, exit_code, active_encoder,
                   probes, children, temp_dir, files, calls, interrupted>>

\* t1.join(); t2.join()
JoinMonitors ==
    /\ pc = "join"
    /\ mon["A"].st = "done"
    /\ mon["B"].st = "done"
    /\ pc' = "check"
    /\ UNCHANGED <<units, inputs, orig_bytes, phase, pending, ret, exit_code, active_encoder,
                   probes, children, temp_dir, files, calls, interrupted>>

\* faulty version: a failure in a split path starts the encode again
Leave_Retry(r) == pc' = "launch_a" /\ UNCHANGED <<ret, pending>>

\* a return or raise inside the try block of a split path: videocompress.py
\* runs the finally block first, 50mb.py has no try block
Leave(r) ==
    IF variant = "videocompress"
    THEN pending' = r /\ pc' = "fin_rmtree" /\ UNCHANGED ret
    ELSE Finish(r)

\* faulty version: only the first segment's return code is looked at
PassFailed_OnlyA(x, y) == proc[x].rc # 0

\* faulty version: "and" in place of "or"
PassFailed_And(x, y) == proc[x].rc # 0 /\ proc[y].rc # 0

\* "pa.returncode != 0 or pb.returncode != 0"
PassFailed(x, y) == proc[x].rc # 0 \/ proc[y].rc # 0

FailMessage(ph) ==
    CASE ph = "pass1" -> "Pass 1 Failed"
      [] ph = "pass2" -> "Pass 2 Failed"
      [] OTHER        -> "Split encode failed"

\* the return-code check after the join of each phase
CheckReturnCodes ==
    /\ pc = "check"
    /\ IF PassFailed(pa, pb)
       THEN Leave(Return(FALSE, FailMessage(phase))) /\ UNCHANGED phase
       ELSE /\ IF phase = "pass1"
               THEN phase' = "pass2" /\ pc' = "launch_a"
               ELSE pc' = "write_list" /\ UNCHANGED phase
            /\ UNCHANGED <<ret, pending>>
    /\ UNCHANGED <<units, inputs, orig_bytes, exit_code, active_encoder, probes,
                   children, temp_dir, files, calls, interrupted>>

\* with open(list_path, "w") as lf: lf.write(...)
WriteList ==
    /\ pc = "write_list"
    /\ files' = files \cup {list_path}
    /\ pc' = "concat_run"
    /\ UNCHANGED <<units, inputs, orig_bytes, phase, pending, ret, exit_code, active_encoder,
                   probes, children, temp_dir, calls, interrupted>>

\* subprocess.run([ffmpeg, "-f", "concat", ...], check=True): the child is started
RunConcat ==
    /\ pc = "concat_run"
    /\ Popen("concat")
    /\ pc' = "concat_wait"
    /\ UNCHANGED <<units, inputs, orig_bytes, phase, pending, ret, exit_code, active_encoder,
                   probes, pa, pb, mon, temp_dir, files, calls, interrupted>>

\* subprocess.run returns or raises CalledProcessError
ConcatDone ==
    /\ pc = "concat_wait"
    /\ proc["concat"].st = "exited"
    /\ IF proc["concat"].rc # 0
       THEN IF variant = "videocompress"
            THEN Leave(Return(FALSE, IF phase = "hw" THEN "Stitching failed"
                                     ELSE "Stitching Failed"))
            ELSE Finish(Raise("CalledProcessError"))
       ELSE IF variant = "videocompress"
            THEN Leave(IF phase = "hw" THEN Return(TRUE, "") ELSE NoRet)
            ELSE pc' = "fifty_cleanup" /\ UNCHANGED <<ret, pending>>
    /\ UNCHANGED <<units, inputs, orig_bytes, phase, exit_code, active_encoder, probes,
                   children, temp_dir, files, calls, interrupted>>

\* shutil.rmtree raises OSError (swallowed by "except OSError: pass") when a child
\* that was not reaped still works in the directory: its files are open (win32)
\* or it creates one between the listing and the rmdir
RmtreeCanFail == \E p \in ProcIds : Live(p)

\* finally: try: shutil.rmtree(temp_dir) except OSError: pass
FinallyRmtree ==
    /\ pc = "fin_rmtree"
    /\ \/ temp_dir' = "removed" /\ files' = rmtree(files)
       \/ RmtreeCanFail /\ UNCHANGED <<temp_dir, files>>
    /\ pc' = "fin_exit"
    /\ UNCHANGED <<units, inputs, orig_bytes, phase, pending, ret, exit_code, active_encoder,
                   probes, children, calls, interrupted>>

\* the end of the finally block. hevc_nvenc branch: clean_log_file(), then the
\* pending return, or on to the code after the branch. Other hardware encoders:
\* encode_split_single_pass_hw returns (ok, err) or raises; compress_video
\* does "if not ok: clean_log_file(); return False, err"
FinallyExit ==
    /\ pc = "fin_exit"
    /\ IF phase = "hw"
       THEN CASE pending.kind = "raise" ->
                   ret' = pending /\ pc' = "returned" /\ UNCHANGED files
              [] pending.kind = "return" /\ ~pending.ok ->
                   /\ files' = clean_log_file(files, {})
                   /\ ret' = Return(FALSE, pending.msg)
                   /\ pc' = "returned"
              [] OTHER ->
                   pc' = "post_clean" /\ UNCHANGED <<ret, files>>
       ELSE /\ files' = clean_log_file(files, {})
            /\ IF pending.kind = "none"
               THEN pc' = "post_clean" /\ UNCHANGED ret
               ELSE ret' = pending /\ pc' = "returned"
    /\ pending' = NoRet
    /\ UNCHANGED <<units, inputs, orig_bytes, phase, exit_code, active_encoder, probes,
                   children, temp_dir, calls, interrupted>>

\* 50mb.py after the stitch: clean_log_file([log_a, log_b]); os.remove of
\* p1.mp4, p2.mp4 and list.txt
FiftyCleanup ==
    /\ pc = "fifty_cleanup"
    /\ files' = clean_log_file(files, {log_a, log_b}) \ {p1_path, p2_path, list_path}
    /\ pc' = "post_clean"
    /\ UNCHANGED <<units, inputs, orig_bytes, phase, pending, ret, exit_code, active_encoder,
                   probes, children, temp_dir, calls, interrupted>>

\* process = subprocess.Popen(cmd, ...) of the unsplit encode
SwLaunch ==
    /\ pc = "sw_launch"
    /\ Popen("sw")
    /\ pc' = "sw_read"
    /\ UNCHANGED <<units, inputs, orig_bytes, phase, pending, ret, exit_code, active_encoder,
                   probes, pa, pb, mon, temp_dir, files, calls, interrupted>>

\* the read loop over process.stderr ends at end of stream
SwRead ==
    /\ pc = "sw_read"
    /\ proc["sw"].st = "exited"
    /\ pc' = "sw_wait"
    /\ UNCHANGED <<units, inputs, orig_bytes, phase, pending, ret, exit_code, active_encoder,
                   probes, children, temp_dir, files, calls, interrupted>>

\* process.wait(), then the pending exception or the return-code check
SwWait ==
    /\ pc = "sw_wait"
    /\ proc["sw"].st = "exited"
    /\ CASE pending.kind = "raise" -> ret' = pending /\ pc' = "returned"
         [] pending.kind # "raise" /\ proc["sw"].rc # 0 ->
              ret' = Return(FALSE, IF variant = "fifty" THEN "CPU Encode Failed"
                                   ELSE "Encode Failed") /\ pc' = "returned"
         [] OTHER -> pc' = "post_clean" /\ UNCHANGED ret
    /\ pending' = NoRet
    /\ UNCHANGED <<units, inputs, orig_bytes, phase, exit_code, active_encoder, probes,
                   children, temp_dir, files, calls, interrupted>>

\* compress_video: the clean_log_file() after the encode branch
PostClean ==
    /\ pc = "post_clean"
    /\ files' = clean_log_file(files, {})
    /\ pc' = "post_exists"
    /\ UNCHANGED <<units, inputs, orig_bytes, phase, pending, ret, exit_code, active_encoder,
                   probes, children, temp_dir, calls, interrupted>>

\* faulty version: success is reported without looking for the output file
final_result_Unchecked(fs) == Return(TRUE, "output_path")

\* if os.path.exists(output_path): return True, output_path
\* return False, "Output missing"
final_result(fs) ==
    IF output_path \in fs THEN Return(TRUE, "output_path")
    ELSE Return(FALSE, "Output missing")

\* compress_video: the last statements, after every encode path
PostExists ==
    /\ pc = "post_exists"
    /\ Finish(final_result(files))
    /\ UNCHANGED <<units, inputs, orig_bytes, phase, exit_code, active_encoder, probes,
                   children, temp_dir, files, calls, interrupted>>

\* __main__: "if not success: sys.exit(1)"; an exception that escapes
\* compress_video ends the interpreter with a traceback
ExitStatus(r) ==
    IF r.kind = "raise" THEN "uncaught"
    ELSE IF ~r.ok THEN "1" ELSE "0"

CliExit ==
    /\ pc = "returned"
    /\ exit_code' = ExitStatus(ret)
    /\ pc' = "exited"
    /\ UNCHANGED <<units, inputs, orig_bytes, phase, pending, ret, active_encoder, probes,
                   children, temp_dir, files, calls, interrupted>>

----------------------------------------------------------------------------
(* KeyboardInterrupt in the main thread while an encode path runs *)

\* the KeyboardInterrupt is raised in the main thread; the children do not get it
Delivered == IF \E p \in ProcIds : proc[p].st = "running" THEN "live" ELSE "idle"

\* positions inside the try block of a split path
TryPcs == {"launch_a", "launch_b", "threads", "poll", "join", "check",
           "write_list", "concat_run", "concat_wait"}

\* subprocess.run kills and reaps its child when an exception interrupts it
RunAborted(pr) ==
    [pr EXCEPT !["concat"] = IF @.st = "running" THEN [st |-> "exited", rc |-> -9] ELSE @]

\* pa.kill(); pb.kill(), each in "try: ... except: pass": an unbound name or a
\* process that already exited is skipped; kill() does not wait for the child
KillChildren(pr) ==
    [p \in ProcIds |-> IF p \in {pa, pb} /\ pr[p].st = "running"
                       THEN [st |-> "killed", rc |-> 0] ELSE pr[p]]

\* videocompress.py, hevc_nvenc branch: except KeyboardInterrupt
InterruptNvenc ==
    /\ variant = "videocompress"
    /\ phase \in {"pass1", "pass2"}
    /\ pc \in TryPcs
    /\ interrupted = "no"
    /\ interrupted' = Delivered
    /\ proc' = KillChildren(RunAborted(proc))
    /\ pending' = Return(FALSE, "Cancelled")
    /\ pc' = "fin_rmtree"
    /\ UNCHANGED <<units, inputs, orig_bytes, phase, ret, exit_code, active_encoder, probes,
                   launched, pa, pb, mon, temp_dir, files, calls>>

\* encode_split_single_pass_hw has no except clause: the finally block runs and
\* the KeyboardInterrupt goes on through compress_video
InterruptHw ==
    /\ variant = "videocompress"
    /\ phase = "hw"
    /\ pc \in TryPcs
    /\ interrupted = "no"
    /\ interrupted' = Delivered
    /\ proc' = RunAborted(proc)
    /\ pending' = Raise("KeyboardInterrupt")
    /\ pc' = "fin_rmtree"
    /\ UNCHANGED <<units, inputs, orig_bytes, phase, ret, exit_code, active_encoder, probes,
                   launched, pa, pb, mon, temp_dir, files, calls>>

\* encode_single_pass_hw: "finally: process.wait()", then the exception goes on
InterruptSw ==
    /\ variant = "videocompress"
    /\ pc = "sw_read"
    /\ interrupted = "no"
    /\ interrupted' = Delivered
    /\ pending' = Raise("KeyboardInterrupt")
    /\ pc' = "sw_wait"
    /\ UNCHANGED <<units, inputs, orig_bytes, phase, ret, exit_code, active_encoder, probes,
                   children, temp_dir, files, calls>>

\* 50mb.py has no try block at all: the KeyboardInterrupt leaves compress_video
InterruptFifty ==
    /\ variant = "fifty"
    /\ pc \in TryPcs \cup {"sw_read", "sw_wait"}
    /\ interrupted = "no"
    /\ interrupted' = Delivered
    /\ proc' = RunAborted(proc)
    /\ ret' = Raise("KeyboardInterrupt")
    /\ pc' = "returned"
    /\ UNCHANGED <<units, inputs, orig_bytes, phase, pending, exit_code, active_encoder,
                   probes, launched, pa, pb, mon, temp_dir, files, calls>>

----------------------------------------------------------------------------
(* The environment: child processes and monitor threads *)

\* a running child creates its output file(s)
ProcWrite(p) ==
    /\ proc[p].st = "running"
    /\ ~(Output(p) \subseteq files)
    /\ \A f \in Output(p) : DirExists(f[1])
    /\ files' = files \cup Output(p)
    /\ UNCHANGED <<units, inputs, orig_bytes, pc, phase, pending, ret, exit_code,
                   active_encoder, probes, children, temp_dir, calls, interrupted>>

\* a running child exits by itself, with return code 0 or 1
ProcExit(p) ==
    /\ proc[p].st = "running"
    /\ \E rc \in {0, 1} : proc' = [proc EXCEPT ![p] = [st |-> "exited", rc |-> rc]]
    /\ UNCHANGED <<units, inputs, orig_bytes, pc, phase, pending, ret, exit_code,
                   active_encoder, probes, launched, pa, pb, mon, temp_dir, files,
                   calls, interrupted>>

\* a killed child is gone
ProcDie(p) ==
    /\ proc[p].st = "killed"
    /\ proc' = [proc EXCEPT ![p] = [st |-> "exited", rc |-> -9]]
    /\ UNCHANGED <<units, inputs, orig_bytes, pc, phase, pending, ret, exit_code,
                   active_encoder, probes, launched, pa, pb, mon, temp_dir, files,
                   calls, interrupted>>

\* monitor_process: process.stderr.read(1) returns "" once the child has exited
MonitorEOF(s) ==
    /\ mon[s].st = "running"
    /\ proc[mon[s].of].st = "exited"
    /\ mon' = [mon EXCEPT ![s].st = "done"]
    /\ UNCHANGED <<units, inputs, orig_bytes, pc, phase, pending, ret, exit_code,
                   active_encoder, probes, proc, launched, pa, pb, temp_dir, files,
                   calls, interrupted>>

----------------------------------------------------------------------------

Next ==
    \/ Start
    \/ CheckInput
    \/ GetVideoInfo
    \/ SizeCheck
    \/ select_best_encoder
    \/ PrepareNvenc
    \/ PrepareHw
    \/ PrepareSw
    \/ LaunchA
    \/ LaunchB
    \/ StartMonitors
    \/ PollLoop
    \/ JoinMonitors
    \/ CheckReturnCodes
    \/ WriteList
    \/ RunConcat
    \/ ConcatDone
    \/ FinallyRmtree
    \/ FinallyExit
    \/ FiftyCleanup
    \/ SwLaunch
    \/ SwRead
    \/ SwWait
    \/ PostClean
    \/ PostExists
    \/ CliExit
    \/ InterruptNvenc
    \/ InterruptHw
    \/ InterruptSw
    \/ InterruptFifty
    \/ \E p \in ProcIds : ProcWrite(p)
    \/ \E p \in ProcIds : ProcExit(p)
    \/ \E p \in ProcIds : ProcDie(p)
    \/ \E s \in {"A", "B"} : MonitorEOF(s)

Spec == Init /\ [][Next]_vars

----------------------------------------------------------------------------
(* Properties *)

Terminated == pc \in {"returned", "exited"}

ExitedOk(p) == proc[p].st = "exited" /\ proc[p].rc = 0

NoneLaunched(S) == \A p \in S : launched[p] = 0

\* C1: in the two-pass split path a pass-2 encoder has been started only if
\* both pass-1 processes exited with return code 0; once a pass-1 process has
\* exited non-zero no pass-2 process exists
C1_Pass2OnlyAfterPass1 ==
    /\ \A p \in {"a2", "b2"} : launched[p] > 0 => ExitedOk("a1") /\ ExitedOk("b1")
    /\ \A q \in {"a1", "b1"} :
          proc[q].st = "exited" /\ proc[q].rc # 0 => NoneLaunched({"a2", "b2"})

C1_Witness == proc["a2"].st = "running" /\ proc["b2"].st = "running"

\* C2: in both split paths the concat invocation has been started only if both
\* segment encoders of the final pass exited with return code 0
C2_StitchOnlyAfterSegments ==
    launched["concat"] > 0 =>
        \/ phase = "pass2" /\ ExitedOk("a2") /\ ExitedOk("b2")
        \/ phase = "hw" /\ ExitedOk("hw_a") /\ ExitedOk("hw_b")

C2_Witness == phase = "hw" /\ proc["concat"].st = "running"

\* the segment files, pass logs and manifest of this job
JobArtifacts ==
    {p1_path, p2_path, list_path} \cup PassLogs(JobDir, log_a) \cup PassLogs(JobDir, log_b)

PassFailureMessages == {"Pass 1 Failed", "Pass 2 Failed", "Split encode failed"}

\* C3: when the job has returned a pass failure, no segment file, pass log or
\* manifest of the job is left and its temporary directory does not exist
C3_PassFailureLeavesNothing ==
    Terminated /\ ret.kind = "return" /\ ret.msg \in PassFailureMessages =>
        files \cap JobArtifacts = {} /\ temp_dir # "exists"

\* C4: once compress_video of videocompress.py has ended after an interrupt
\* that arrived while a child process was running, it has returned Cancelled
\* (not raised) and no child process is still running
C4_InterruptCancels ==
    variant = "videocompress" /\ Terminated /\ interrupted = "live" =>
        /\ ret = Return(FALSE, "Cancelled")
        /\ \A p \in ProcIds : proc[p].st # "running"

\* C5: when a split job that made a temporary directory has ended, the
\* directory and everything in it are gone
C5_TempDirGone ==
    Terminated /\ calls.mkdtemp > 0 =>
        temp_dir = "removed" /\ \A f \in files : f[1] # "tmp"

\* C6: a probed source size at or below the target size gives the "Already
\* smaller" result, and then no capability probe, split planning, bitrate
\* allocation, child process or temporary directory has happened
C6_AlreadySmallerShortCircuit ==
    orig_bytes > 0 /\ orig_bytes <= target_size_mb * MB_TO_BYTES =>
        /\ pc = "size_check" \/ ret = Return(FALSE, "Already smaller")
        /\ probe_log = << >>
        /\ calls = [split |-> 0, alloc |-> 0, mkdtemp |-> 0]
        /\ NoneLaunched(ProcIds)
        /\ temp_dir = "none"

C6_Witness ==
    /\ pc = "exited"
    /\ orig_bytes = target_size_mb * MB_TO_BYTES
    /\ ret.msg = "Already smaller"

\* C7: the "Already smaller" outcome does not end the command line with the
\* failure exit code 1
C7_AlreadySmallerIsNoError ==
    pc = "exited" /\ ret.msg = "Already smaller" => exit_code # "1"

C9_HwSplitSinglePass ==
    active_encoder \in {"hevc_vaapi", "hevc_videotoolbox", "hevc_amf", "hevc_qsv"} =>
        /\ NoneLaunched({"a1", "b1", "a2", "b2", "sw"})
        /\ launched["hw_a"] <= 1 /\ launched["hw_b"] <= launched["hw_a"]
        /\ pc \in {"threads", "poll", "join", "check"} =>
              launched["hw_a"] = 1 /\ launched["hw_b"] = 1
        /\ pc = "concat_wait" => list_path \in files
        /\ Terminated /\ interrupted = "no" /\ ExitedOk("hw_a") /\ ExitedOk("hw_b") =>
              launched["concat"] = 1

C9_Witness ==
    /\ active_encoder = "hevc_qsv"
    /\ ExitedOk("hw_a") /\ ExitedOk("hw_b")
    /\ ExitedOk("concat")
    /\ pc = "exited"
    /\ ret.ok

IsPrefix(s, t) == Len(s) <= Len(t) /\ \A i \in 1..Len(s) : s[i] = t[i]

\* C10: the candidates are probed in the platform's priority order; a probe
\* is followed by another only if it failed; the encoder returned is the
\* candidate whose probe succeeded, or libx265 after every candidate failed
\* (with a non-zero exit, a missing runtime or an OS error); no outcome makes
\* the selection raise
C10_FirstAvailableEncoder ==
    /\ IsPrefix(probe_log, priority_chain)
    /\ pc = "select" => probe_out # "ok"
    /\ pc = "dispatch" => ret = NoRet /\ pending = NoRet
    /\ active_encoder # "unset" =>
          /\ IF probe_out = "ok"
             THEN active_encoder = probe_log[Len(probe_log)]
             ELSE /\ active_encoder = "libx265"
                  /\ probe_log = priority_chain
                  /\ probe_out \in {"nonzero", "missing", "oserror"}

C10_Witness ==
    /\ platform = "win32"
    /\ variant = "videocompress"
    /\ probe_log = <<"hevc_nvenc", "hevc_amf">>
    /\ active_encoder = "hevc_amf"

\* the concat invocation ran to its end and exited non-zero
StitchFailed == proc["concat"].st = "exited" /\ proc["concat"].rc > 0

StitchFailureMessages == {"Stitching Failed", "Stitching failed"}

\* C22: when the concat invocation has exited non-zero (and no interrupt came)
\* the job ends by returning a failure flag with the stitch-failure message, it
\* does not raise; and no segment file, manifest or pass log of the job is
\* removed while the concat invocation is running
C22_StitchFailureIsResult ==
    /\ [](Terminated /\ interrupted = "no" /\ StitchFailed =>
             ret.kind = "return" /\ ~ret.ok /\ ret.msg \in StitchFailureMessages)
    /\ [][proc["concat"].st = "running" => files \cap JobArtifacts \subseteq files']_vars

\* every encode and stitch step of the path taken reported success
PipelineSucceeded ==
    /\ interrupted = "no"
    /\ \/ active_encoder = "libx265" /\ ExitedOk("sw")
       \/ active_encoder # "libx265" /\ ExitedOk("concat")

\* C23: compress_video has returned success only if the output file exists;
\* when every encode and stitch step succeeded and the output file is absent
\* it has returned the "Output missing" failure
C23_SuccessNeedsOutput ==
    Terminated =>
        /\ ret.kind = "return" /\ ret.ok => output_path \in files
        /\ PipelineSucceeded /\ output_path \notin files =>
              ret = Return(FALSE, "Output missing")

C23_Witness ==
    /\ pc = "exited"
    /\ ExitedOk("a2") /\ ExitedOk("b2") /\ ExitedOk("concat")
    /\ output_path \notin files
    /\ ret.msg = "Output missing"

\* some encoder or the concat invocation has exited non-zero by itself
AnyFailed == \E p \in ProcIds : proc[p].st = "exited" /\ proc[p].rc > 0

AtMostOnce == \A p \in ProcIds : launched[p] <= 1

\* pb = subprocess.Popen(...) right after pa = subprocess.Popen(...)
SecondOfPair ==
    /\ pc = "launch_b"
    /\ launched' = [launched EXCEPT ![SegProc(phase, "B")] = 1]

\* C24: every encoder process and the concat invocation is launched at most
\* once, and once an encoder or the concat invocation has exited non-zero no
\* process of a later pass, no concat and no second copy of any process is
\* launched; the only launch still possible is the second segment's encoder
\* of the very pass that is being started (the two encoders of a pass are
\* started back to back, the pass fails or succeeds as a whole)
C24_NoRetry ==
    /\ []AtMostOnce
    /\ [][AnyFailed => launched' = launched \/ SecondOfPair]_vars

\* both pass-1 encoders ran, one failed, and the job ended with nothing else run
C24_Witness ==
    /\ pc = "exited"
    /\ proc["a1"].st = "exited" /\ proc["a1"].rc = 0
    /\ proc["b1"].st = "exited" /\ proc["b1"].rc = 1
    /\ ret.msg = "Pass 1 Failed"

\* the monitor threads reading the stderr of process p
MonitorsOf(p) == { s \in {"A", "B"} : mon[s].st = "running" /\ mon[s].of = p }

\* C27: from the start of the monitor threads to their join each segment
\* encoder that is still running has exactly one monitor thread, no encoder
\* ever has two, and when compress_video has returned or raised (success,
\* pass failure, stitch failure, cancellation) no monitor thread it started
\* is still running
C27_MonitorsEndBeforeReturn ==
    /\ \A p \in ProcIds : Cardinality(MonitorsOf(p)) <= 1
    /\ pc \in {"poll", "join"} =>
          \A p \in {pa, pb} : proc[p].st = "running" => Cardinality(MonitorsOf(p)) = 1
    /\ Terminated => \A s \in {"A", "B"} : mon[s].st # "running"

\* compress_video returned (False, ...) after it had launched an encoder
FailedAfterEncoding ==
    /\ Terminated
    /\ ret.kind = "return" /\ ~ret.ok
    /\ \E p \in ProcIds : launched[p] > 0

\* C34: when compress_video has returned a failure result after encoding
\* started, no file written by this job is at the output path (no file was
\* there when the job began)
C34_FailureLeavesNoOutput == FailedAfterEncoding => output_path \notin files

----------------------------------------------------------------------------
(* Progress: the main thread, the monitor threads and the children are      *)
(* scheduled fairly and every child exits in the end.  A KeyboardInterrupt  *)
(* and what a child writes stay unforced.                                   *)

\* the steps of the main thread
MainStep ==
    \/ Start
    \/ CheckInput
    \/ GetVideoInfo
    \/ SizeCheck
    \/ select_best_encoder
    \/ PrepareNvenc
    \/ PrepareHw
    \/ PrepareSw
    \/ LaunchA
    \/ LaunchB
    \/ StartMonitors
    \/ PollLoop
    \/ JoinMonitors
    \/ CheckReturnCodes
    \/ WriteList
    \/ RunConcat
    \/ ConcatDone
    \/ FinallyRmtree
    \/ FinallyExit
    \/ FiftyCleanup
    \/ SwLaunch
    \/ SwRead
    \/ SwWait
    \/ PostClean
    \/ PostExists
    \/ CliExit

Fairness ==
    /\ WF_vars(MainStep)
    /\ \A p \in ProcIds : WF_vars(ProcExit(p))
    /\ \A p \in ProcIds : WF_vars(ProcDie(p))
    /\ \A s \in {"A", "B"} : WF_vars(MonitorEOF(s))

SpecFair == Spec /\ Fairness

EncodingStarted == \E p \in ProcIds : launched[p] > 0

\* C35: once the polling loop is entered it ends and both monitors are
\* joined, and once a child has been launched compress_video comes to return
\* a result: success, failure or cancelled
C35_EndsJoinedWithResult ==
    /\ (pc = "poll") ~> (pc = "check")
    /\ EncodingStarted ~> (Terminated /\ ret.kind = "return")

----------------------------------------------------------------------------
(* The prober: get_video_info on its own, over bounded ffprobe outputs *)

\* ffprobe prints at most MaxFpsLen characters for the frame rate
MaxFpsLen == 3

\* ffprobe prints at most MaxDurLen characters for the duration
MaxDurLen == 2

\* the bit rate assumed when the audio stream reports none
DEFAULT_AUDIO_BPS == 128000

\* characters ffprobe's output is drawn from; "x" is any other character
FpsChars == {"0", "1", "/", "x"}

DurChars == {"0", "1", ".", "x"}

AudChars == {"1", "x"}

DigitChars == {"0", "1"}

\* the strings of at most n characters of A
Strs(A, n) == UNION { [1..k -> A] : k \in 0..n }

\* how one ffprobe call ends: exit 0, CalledProcessError, OSError
RunOutcomes == {"ok", "nonzero", "oserror"}

\* str.isdigit
isdigit(s) == Len(s) > 0 /\ \A i \in 1..Len(s) : s[i] \in DigitChars

RECURSIVE IntValue(_)
\* the number a string of decimal digits denotes
IntValue(s) ==
    IF s = << >> THEN 0
    ELSE IntValue(SubSeq(s, 1, Len(s) - 1)) * 10 + (IF s[Len(s)] = "1" THEN 1 ELSE 0)

\* int(s): ValueError unless s is a non-empty string of digits
int(s) == IF isdigit(s) THEN [ok |-> TRUE, v |-> IntValue(s)] ELSE [ok |-> FALSE, v |-> 0]

RECURSIVE split(_, _)
\* str.split(sep)
split(s, sep) ==
    IF \A i \in 1..Len(s) : s[i] # sep THEN <<s>>
    ELSE LET i == CHOOSE j \in 1..Len(s) :
                      s[j] = sep /\ \A k \in 1..(j - 1) : s[k] # sep
         IN  <<SubSeq(s, 1, i - 1)>> \o split(SubSeq(s, i + 1, Len(s)), sep)

RECURSIVE Pow10(_)
Pow10(n) == IF n = 0 THEN 1 ELSE 10 * Pow10(n - 1)

\* float(s) for a plain decimal: digits with at most one point and at least
\* one digit; the value is num / den.  Anything else is a ValueError.
float(s) ==
    LET parts == split(s, ".")
        whole == parts[1]
        frac  == IF Len(parts) = 2 THEN parts[2] ELSE << >>
    IN  IF /\ Len(parts) <= 2
           /\ Len(whole) + Len(frac) > 0
           /\ \A i \in 1..Len(whole) : whole[i] \in DigitChars
           /\ \A i \in 1..Len(frac) : frac[i] \in DigitChars
        THEN [ok |-> TRUE, num |-> IntValue(whole \o frac), den |-> Pow10(Len(frac))]
        ELSE [ok |-> FALSE, num |-> 0, den |-> 1]

\* math.ceil(a / b) for a >= 0, b > 0
ceil_div(a, b) == (a + b - 1) \div b

\* what get_video_info hands back: None, a tuple, or an escaping exception
None == [kind |-> "none", exc |-> "", duration |-> <<0, 1>>, fps |-> <<0, 1>>,
         audio_kbps |-> 0]

Raised(exc) == [None EXCEPT !.kind = "raise", !.exc = exc]

MediaInfo(duration, fps, audio_kbps) ==
    [kind |-> "info", exc |-> "", duration |-> duration, fps |-> fps,
     audio_kbps |-> audio_kbps]

\* the exceptions the function's outer handler turns into None:
\* videocompress.py names three classes, 50mb.py has a bare except
Handled(exc) ==
    variant = "fifty" \/ exc \in {"CalledProcessError", "ValueError", "OSError"}

Outcome(exc) == IF Handled(exc) THEN None ELSE Raised(exc)

ExcOf(rc) == IF rc = "nonzero" THEN "CalledProcessError" ELSE "OSError"

InitProbe ==
    /\ variant \in Variants
    /\ platform = "linux"
    /\ target_size_mb = 1
    /\ orig_bytes = 0
    /\ pc = "start"
    /\ phase = "none"
    /\ pending = NoRet
    /\ ret = NoRet
    /\ exit_code = "unset"
    /\ active_encoder = "unset"
    /\ probe_log = << >>
    /\ probe_out = "unset"
    /\ proc = [p \in ProcIds |-> NoProc]
    /\ launched = [p \in ProcIds |-> 0]
    /\ pa = "unbound"
    /\ pb = "unbound"
    /\ mon = [s \in {"A", "B"} |-> [st |-> "none", of |-> "unbound"]]
    /\ temp_dir = "none"
    /\ files = {}
    /\ calls = [split |-> 0, alloc |-> 0, mkdtemp |-> 0]
    /\ interrupted = "no"
    /\ jobs = Idle
    /\ prober = [at |-> "fps_probe", fps_out |-> << >>, dur_out |-> << >>,
                 audio_bps |-> 0, fps |-> <<0, 1>>, info |-> None, ret |-> NoRet]
    /\ planner = Idle
    /\ allocator = Idle
    /\ tracker = Idle

\* the function is left with result r
ProbeDone(r) == prober' = [prober EXCEPT !.at = "caller", !.info = r]

\* fps_out = subprocess.check_output(...).strip()
RunFpsProbe ==
    /\ prober.at = "fps_probe"
    /\ \E rc \in RunOutcomes :
          IF rc = "ok"
          THEN \E out \in Strs(FpsChars, MaxFpsLen) :
                  prober' = [prober EXCEPT !.at = "dur_probe", !.fps_out = out]
          ELSE ProbeDone(Outcome(ExcOf(rc)))
    /\ UNCHANGED <<vars_job, jobs, planner, allocator, tracker>>

\* dur_out = subprocess.check_output(...).strip()
RunDurProbe ==
    /\ prober.at = "dur_probe"
    /\ \E rc \in RunOutcomes :
          IF rc = "ok"
          THEN \E out \in Strs(DurChars, MaxDurLen) :
                  prober' = [prober EXCEPT !.at = "aud_probe", !.dur_out = out]
          ELSE ProbeDone(Outcome(ExcOf(rc)))
    /\ UNCHANGED <<vars_job, jobs, planner, allocator, tracker>>

\* the audio bit rate: videocompress.py survives a non-zero exit of this probe,
\* 50mb.py does not
RunAudProbe ==
    /\ prober.at = "aud_probe"
    /\ \E rc \in RunOutcomes :
          CASE rc = "ok" ->
                 \E out \in Strs(AudChars, 1) :
                    prober' = [prober EXCEPT !.at = "parse_fps",
                                 !.audio_bps = IF isdigit(out) THEN int(out).v
                                               ELSE DEFAULT_AUDIO_BPS]
            [] rc = "nonzero" /\ variant = "videocompress" ->
                 prober' = [prober EXCEPT !.at = "parse_fps",
                                          !.audio_bps = DEFAULT_AUDIO_BPS]
            [] OTHER -> ProbeDone(Outcome(ExcOf(rc)))
    /\ UNCHANGED <<vars_job, jobs, planner, allocator, tracker>>

\* if not fps_out or '/' not in fps_out: return None
\* num, den = map(int, fps_out.split('/')); fps = num / den
ParseFps ==
    /\ prober.at = "parse_fps"
    /\ LET fps_out == prober.fps_out
           parts   == split(fps_out, "/")
       IN  IF fps_out = << >> \/ Len(parts) = 1 THEN ProbeDone(None)
           ELSE IF Len(parts) # 2 \/ ~int(parts[1]).ok \/ ~int(parts[2]).ok
                THEN ProbeDone(Outcome("ValueError"))
           ELSE IF int(parts[2]).v = 0
                THEN ProbeDone(Outcome("ZeroDivisionError"))
           ELSE prober' = [prober EXCEPT !.at = "return",
                                         !.fps = <<int(parts[1]).v, int(parts[2]).v>>]
    /\ UNCHANGED <<vars_job, jobs, planner, allocator, tracker>>

\* return float(dur_out), get_file_size(input_path), fps, math.ceil(audio_bps / 1000)
ReturnInfo ==
    /\ prober.at = "return"
    /\ \E size_ok \in BOOLEAN :
          LET d == float(prober.dur_out)
          IN  IF ~d.ok THEN ProbeDone(Outcome("ValueError"))
              ELSE IF ~size_ok THEN ProbeDone(Outcome("OSError"))
              ELSE ProbeDone(MediaInfo(<<d.num, d.den>>, prober.fps,
                                       ceil_div(prober.audio_bps, 1000)))
    /\ UNCHANGED <<vars_job, jobs, planner, allocator, tracker>>

\* compress_video: info = get_video_info(input_path); if not info: return False, ...
ProbeCaller ==
    /\ prober.at = "caller"
    /\ prober' = [prober EXCEPT
                    !.at = "done",
                    !.ret = CASE prober.info.kind = "raise" -> Raise(prober.info.exc)
                              [] prober.info.kind = "none" ->
                                   Return(FALSE, "Failed to extract video info")
                              [] OTHER -> NoRet]
    /\ UNCHANGED <<vars_job, jobs, planner, allocator, tracker>>

NextProbe ==
    \/ RunFpsProbe
    \/ RunDurProbe
    \/ RunAudProbe
    \/ ParseFps
    \/ ReturnInfo
    \/ ProbeCaller

SpecProbe == InitProbe /\ [][NextProbe]_vars

\* C11: for every prober output get_video_info returns a tuple or None, and
\* compress_video then returns a failure result or goes on: no exception
\* leaves compress_video
C11_ProberNeverRaises ==
    prober.at = "done" =>
        /\ prober.info.kind # "raise"
        /\ prober.ret.kind # "raise"
        /\ prober.info.kind = "none" => prober.ret.kind = "return" /\ ~prober.ret.ok

\* a rational <<num, den>> with den > 0 is positive
Positive(q) == q[1] > 0 /\ q[2] > 0

\* C12: every tuple get_video_info returns has a duration > 0 and a frame
\* rate > 0
C12_MediaInfoPositive ==
    prober.info.kind = "info" => Positive(prober.info.duration) /\ Positive(prober.info.fps)

----------------------------------------------------------------------------
(* The split planner: get_smart_split_point and the segment durations     *)
(* compress_video derives from it, over bounded packet lists.  Times are   *)
(* whole ticks held in binary floating point of MantBits significant bits. *)

\* significant bits of a float
MantBits == 3

\* source durations are 2, 4, .. 2 * MaxDuration ticks
MaxDuration == 5

\* ffprobe lists at most MaxPackets packets
MaxPackets == 2

\* packet timestamps are 0 .. MaxPts ticks
MaxPts == 3

\* the exponent at which n >= 0 fits MantBits bits
RECURSIVE Exponent(_)
Exponent(n) == IF n < 2^MantBits THEN 0 ELSE 1 + Exponent(n \div 2)

\* round n >= 0 to the nearest float, ties to the even mantissa
RoundNat(n) ==
    LET e    == Exponent(n)
        q    == n \div 2^e
        r    == n % 2^e
        up   == 2 * r > 2^e \/ (2 * r = 2^e /\ q % 2 = 1)
    IN  (IF up THEN q + 1 ELSE q) * 2^e

\* the float nearest to the integer n
fl(n) == IF n < 0 THEN 0 - RoundNat(0 - n) ELSE RoundNat(n)

\* float addition and subtraction
fadd(a, b) == fl(a + b)

fsub(a, b) == fl(a - b)

\* the distance from a float d > 0 to the next float above it
ulp(d) == 2^Exponent(d)

\* durations get_video_info can return: positive floats, an even number of
\* ticks so that duration / 2 is a whole number of ticks
Durations == { d \in { 2 * n : n \in 1..MaxDuration } : fl(d) = d }

\* a JSON field of a packet: absent, a decimal number, or other text
Absent == [st |-> "absent", v |-> 0]

Text == [st |-> "text", v |-> 0]

Num(n) == [st |-> "num", v |-> n]

\* one packet of ffprobe's listing; pts_time is only read on key packets
Packets ==
    [size : {Absent, Text, Num(1)}, flags : {""}, pts_time : {Absent}]
    \cup [size : {Absent, Text, Num(1)}, flags : {"K"},
          pts_time : {Absent, Text} \cup { Num(t) : t \in 0..MaxPts }]

PacketLists == UNION { [1..n -> Packets] : n \in 0..MaxPackets }

\* what ffprobe printed: a JSON object with packets, one without, no JSON
JsonShapes == {"packets", "nokey", "invalid"}

\* int(p.get('size', 0)) / float(p.get('pts_time', 0)): ValueError on other text
field(f) == [ok |-> f.st # "text", v |-> IF f.st = "num" THEN fl(f.v) ELSE 0]

RECURSIVE SumSizes(_)
\* sum(int(p.get('size', 0)) for p in packets), while every size parses
SumSizes(packets) ==
    IF packets = << >> THEN 0
    ELSE field(packets[1].size).v + SumSizes(Tail(packets))

\* a returned split time, or an exception raised inside the try block
Value(v) == [kind |-> "value", v |-> v, exc |-> ""]

Thrown(exc) == [kind |-> "exc", v |-> 0, exc |-> exc]

\* faulty version: the loop goes on until more than half the bytes are passed
reached_Strict(curr, total) == 2 * curr > total

\* target = sum(...) / 2; if curr >= target
reached(curr, total) == 2 * curr >= total

RECURSIVE Scan(_, _, _, _, _)
\* the for loop: the last key packet's time once half the bytes are passed
Scan(packets, curr, last_k, total, duration) ==
    IF packets = << >> THEN Value(duration \div 2)
    ELSE LET p  == packets[1]
             c  == curr + field(p.size).v
             k  == IF p.flags = "K" THEN field(p.pts_time).v ELSE last_k
         IN  IF p.flags = "K" /\ ~field(p.pts_time).ok THEN Thrown("ValueError")
             ELSE IF reached(c, total)
                  THEN Value(IF k > 0 THEN k ELSE duration \div 2)
             ELSE Scan(Tail(packets), c, k, total, duration)

\* the exceptions the function's handler swallows: videocompress.py names
\* four classes, 50mb.py has a bare except
SplitHandled(exc) ==
    variant = "fifty" \/ exc \in {"JSONDecodeError", "KeyError", "ValueError", "OSError"}

InitSplit ==
    /\ variant \in Variants
    /\ platform = "linux"
    /\ target_size_mb = 1
    /\ orig_bytes = 0
    /\ pc = "start"
    /\ phase = "none"
    /\ pending = NoRet
    /\ ret = NoRet
    /\ exit_code = "unset"
    /\ active_encoder = "unset"
    /\ probe_log = << >>
    /\ probe_out = "unset"
    /\ proc = [p \in ProcIds |-> NoProc]
    /\ launched = [p \in ProcIds |-> 0]
    /\ pa = "unbound"
    /\ pb = "unbound"
    /\ mon = [s \in {"A", "B"} |-> [st |-> "none", of |-> "unbound"]]
    /\ temp_dir = "none"
    /\ files = {}
    /\ calls = [split |-> 0, alloc |-> 0, mkdtemp |-> 0]
    /\ interrupted = "no"
    /\ jobs = Idle
    /\ prober = Idle
    /\ \E d \in Durations, rc \in RunOutcomes, js \in JsonShapes :
          \E ps \in IF rc = "ok" /\ js = "packets" THEN PacketLists ELSE {<< >>} :
             planner = [at |-> "run", duration |-> d, rc |-> rc, json |-> js,
                        packets |-> ps, fallback |-> FALSE,
                        result |-> Value(0), durs |-> <<0, 0>>, ret |-> NoRet]
    /\ allocator = Idle
    /\ tracker = Idle

\* an exception inside the try block: swallowed, then "return duration / 2",
\* or on its way out of the function
SplitExcept(exc) ==
    IF SplitHandled(exc)
    THEN planner' = [planner EXCEPT !.at = "planned", !.fallback = TRUE,
                                    !.result = Value(planner.duration \div 2)]
    ELSE planner' = [planner EXCEPT !.at = "planned", !.result = Thrown(exc)]

\* res = subprocess.run(cmd, capture_output=True, text=True, check=True);
\* 50mb.py passes no check=True and reads whatever was printed
RunPacketProbe ==
    /\ planner.at = "run"
    /\ CASE planner.rc = "oserror" -> SplitExcept("OSError")
         [] planner.rc = "nonzero" /\ variant = "videocompress" ->
              SplitExcept("CalledProcessError")
         [] planner.rc = "nonzero" /\ variant = "fifty" ->
              SplitExcept("JSONDecodeError")
         [] OTHER -> planner' = [planner EXCEPT !.at = "parse"]
    /\ UNCHANGED <<vars_job, jobs, prober, allocator, tracker>>

\* packets = json.loads(res.stdout).get('packets', []); target = sum(...) / 2;
\* the loop; the fall-through return
ScanPackets ==
    /\ planner.at = "parse"
    /\ LET packets == IF planner.json = "packets" THEN planner.packets ELSE << >>
           r == Scan(packets, 0, 0, SumSizes(packets), planner.duration)
       IN  IF planner.json = "invalid" THEN SplitExcept("JSONDecodeError")
           ELSE IF \E i \in 1..Len(packets) : ~field(packets[i].size).ok
                THEN SplitExcept("ValueError")
           ELSE IF r.kind = "exc" THEN SplitExcept(r.exc)
           ELSE planner' = [planner EXCEPT
                              !.at = "planned", !.result = r,
                              !.fallback = \A i \in 1..Len(packets) :
                                              packets[i].flags # "K"]
    /\ UNCHANGED <<vars_job, jobs, prober, allocator, tracker>>

\* faulty version: the second segment is given the whole duration
durs_NoSubtract(split_time, duration) == <<split_time, duration>>

\* durs = [split_time, duration - split_time]
durs(split_time, duration) == <<split_time, fsub(duration, split_time)>>

\* compress_video: split_time = get_smart_split_point(input_path, duration);
\* durs = [split_time, duration - split_time]
SegmentDurations ==
    /\ planner.at = "planned"
    /\ IF planner.result.kind = "exc"
       THEN planner' = [planner EXCEPT !.at = "done", !.ret = Raise(planner.result.exc)]
       ELSE planner' = [planner EXCEPT
                          !.at = "done",
                          !.durs = durs(planner.result.v, planner.duration)]
    /\ UNCHANGED <<vars_job, jobs, prober, allocator, tracker>>

NextSplit ==
    \/ RunPacketProbe
    \/ ScanPackets
    \/ SegmentDurations

SpecSplit == InitSplit /\ [][NextSplit]_vars

\* C13: whenever the packet listing fails (non-zero exit, invalid JSON, a
\* non-numeric field) or shows no key packet, get_smart_split_point returns
\* duration / 2; it never raises and the job goes on
C13_SplitFallsBack ==
    planner.at \in {"planned", "done"} =>
        /\ planner.result.kind = "value"
        /\ planner.ret.kind # "raise"
        /\ (planner.rc # "ok" \/ planner.json # "packets" \/ planner.fallback)
              => planner.result.v = planner.duration \div 2

\* C14: whatever the packets, the split time the job uses lies strictly
\* between 0 and the duration, so both segment durations are positive
C14_SplitInsideSource ==
    (planner.at = "done" /\ planner.result.kind = "value") =>
        /\ 0 < planner.result.v /\ planner.result.v < planner.duration
        /\ planner.durs[1] > 0 /\ planner.durs[2] > 0

\* the job derived two segment durations from a split time inside the source
Planned ==
    /\ planner.at = "done" /\ planner.result.kind = "value"
    /\ 0 < planner.result.v /\ planner.result.v < planner.duration

\* C15 as stated: the two segment durations add up to exactly the duration
C15_DurationsSumExactly ==
    (planner.at = "done" /\ planner.result.kind = "value") =>
        fadd(planner.durs[1], planner.durs[2]) = planner.duration

\* C15: for a split time inside the source the two segment durations add up
\* to the duration within one unit in the last place of the duration (the
\* rounding of duration - split_time), and exactly when the split time is
\* at or after the midpoint
C15_DurationsSumWithinRounding ==
    Planned =>
        LET total == fadd(planner.durs[1], planner.durs[2])
        IN  /\ total - planner.duration <= ulp(planner.duration)
            /\ planner.duration - total <= ulp(planner.duration)
            /\ 2 * planner.result.v >= planner.duration => total = planner.duration

\* a key packet's time was used and duration - split_time had to be rounded
C15_Witness ==
    /\ Planned
    /\ ~planner.fallback
    /\ planner.durs[2] # planner.duration - planner.result.v

\* ffprobe exited 0 and printed packets whose sizes and key-packet times are
\* numbers or left out
WellFormed ==
    /\ planner.rc = "ok"
    /\ planner.json = "packets"
    /\ \A i \in 1..Len(planner.packets) :
          /\ planner.packets[i].size.st # "text"
          /\ planner.packets[i].pts_time.st # "text"

\* the bytes of the first i packets
PrefixSize(i) == SumSizes(SubSeq(planner.packets, 1, i))

\* the first packet at which the running total reaches half of all the bytes
Midpoint ==
    CHOOSE i \in 1..Len(planner.packets) :
        /\ 2 * PrefixSize(i) >= PrefixSize(Len(planner.packets))
        /\ \A j \in 1..(i - 1) : 2 * PrefixSize(j) < PrefixSize(Len(planner.packets))

\* the key packets among the first i
KeysUpTo(i) == { j \in 1..i : planner.packets[j].flags = "K" }

\* the time of the latest of the key packets in K (0 when it carries none)
LastKeyTime(K) ==
    field(planner.packets[CHOOSE j \in K : \A k \in K : k <= j].pts_time).v

\* C29 as stated: at the first packet where the running total reaches half
\* of the bytes the function returns the time of the latest key packet seen
\* so far, and duration / 2 when none has been seen
C29_LastKeyframeOrMidpoint ==
    (planner.at \in {"planned", "done"} /\ WellFormed /\ planner.packets # << >>) =>
        planner.result =
            Value(IF KeysUpTo(Midpoint) = {} THEN planner.duration \div 2
                  ELSE LastKeyTime(KeysUpTo(Midpoint)))

\* C29: at the first packet where the running total reaches half of the
\* bytes the function returns the time of the latest key packet seen so far
\* when that time is above zero; it returns duration / 2 when no key packet
\* has been seen by then, when the latest one has time zero or carries none,
\* and when there is no packet at all
C29_LastPositiveKeyframeOrMidpoint ==
    (planner.at \in {"planned", "done"} /\ WellFormed) =>
        planner.result =
            Value(IF planner.packets = << >> THEN planner.duration \div 2
                  ELSE IF KeysUpTo(Midpoint) = {} THEN planner.duration \div 2
                  ELSE IF LastKeyTime(KeysUpTo(Midpoint)) > 0
                       THEN LastKeyTime(KeysUpTo(Midpoint))
                  ELSE planner.duration \div 2)

\* the second packet is where half of the bytes is reached; both packets are
\* key packets and the second one's time is returned
C29_Witness ==
    /\ planner.at = "planned" /\ WellFormed
    /\ Len(planner.packets) = 2 /\ Midpoint = 2
    /\ KeysUpTo(2) = {1, 2}
    /\ planner.result.v = LastKeyTime({1, 2})
    /\ planner.result.v # LastKeyTime({1})
    /\ planner.result.v # planner.duration \div 2

----------------------------------------------------------------------------
(* The bitrate allocation of compress_video on its own: the loop over the  *)
(* two segments on the split paths, the single computation on the software *)
(* path.  Sizes are whole bytes and durations whole seconds, so that every *)
(* quotient of the code is an exact integer quotient here.                 *)

\* segment durations are 1, 10, .. 10^MaxDurExp seconds
MaxDurExp == 3

\* audio bit rates are 0, AudioStep, .. MaxAudioSteps * AudioStep kbit/s
AudioStep == 8

MaxAudioSteps == 2

MB_TO_BITS == 8 * MB_TO_BYTES

\* 0.90 as numerator and denominator
BITRATE_SAFETY_FACTOR == <<9, 10>>

\* the 0.5 MB below which no segment's video budget is pushed, in bytes
MIN_SEGMENT_BYTES == MB_TO_BYTES \div 2

SegDurations == { Pow10(k) : k \in 0..MaxDurExp }

AudioRates == { k * AudioStep : k \in 0..MaxAudioSteps }

\* "nvenc" and "hw" split the source in two, "sw" encodes it whole
AllocPaths == {"nvenc", "hw", "sw"}

max(a, b) == IF a >= b THEN a ELSE b

\* tgt_part_mb = target_size_mb / 2, in bytes
tgt_part(mb) == (mb * MB_TO_BYTES) \div 2

\* audio_mb = (audio_kbps * d * 1000) / 8 / MB_TO_BYTES, in bytes
audio_bytes(audio_kbps, d) == (audio_kbps * d * 1000) \div 8

\* faulty version: the audio share is not taken off the segment's budget
video_bytes_IgnoringAudio(tgt_part_bytes, audio_kbps, d) ==
    max(MIN_SEGMENT_BYTES, tgt_part_bytes)

\* video_mb = max(0.5, tgt_part_mb - audio_mb), in bytes
video_bytes(tgt_part_bytes, audio_kbps, d) ==
    max(MIN_SEGMENT_BYTES, tgt_part_bytes - audio_bytes(audio_kbps, d))

\* faulty version: the safety factor is left out
br_k_NoSafety(video, d) == (video * 8) \div (d * 1000)

\* br_k = math.floor(((video_mb * MB_TO_BITS) / d / 1000) * BITRATE_SAFETY_FACTOR)
br_k(video, d) ==
    (video * 8 * BITRATE_SAFETY_FACTOR[1]) \div (d * 1000 * BITRATE_SAFETY_FACTOR[2])

\* vid_bits = max(0, tgt_bits - (audio_kbps * 1000 * duration))
vid_bits(mb, audio_kbps, duration) ==
    max(0, mb * MB_TO_BITS - audio_kbps * 1000 * duration)

\* vid_br: videocompress.py floors and applies the safety factor,
\* 50mb.py takes math.ceil(vid_bits / duration / 1000)
vid_br(bits, duration) ==
    IF variant = "videocompress"
    THEN (bits * BITRATE_SAFETY_FACTOR[1]) \div (duration * 1000 * BITRATE_SAFETY_FACTOR[2])
    ELSE ceil_div(bits, duration * 1000)

InitAlloc ==
    /\ variant \in Variants
    /\ platform = "linux"
    /\ target_size_mb \in 1..MaxTargetMb
    /\ orig_bytes = 0
    /\ pc = "start"
    /\ phase = "none"
    /\ pending = NoRet
    /\ ret = NoRet
    /\ exit_code = "unset"
    /\ active_encoder = "unset"
    /\ probe_log = << >>
    /\ probe_out = "unset"
    /\ proc = [p \in ProcIds |-> NoProc]
    /\ launched = [p \in ProcIds |-> 0]
    /\ pa = "unbound"
    /\ pb = "unbound"
    /\ mon = [s \in {"A", "B"} |-> [st |-> "none", of |-> "unbound"]]
    /\ temp_dir = "none"
    /\ files = {}
    /\ calls = [split |-> 0, alloc |-> 0, mkdtemp |-> 0]
    /\ interrupted = "no"
    /\ jobs = Idle
    /\ prober = Idle
    /\ planner = Idle
    /\ \E path \in AllocPaths, a \in AudioRates :
          /\ path = "hw" => variant = "videocompress"
          /\ \E ds \in IF path = "sw" THEN [1..1 -> SegDurations]
                       ELSE [1..2 -> SegDurations] :
                allocator = [at |-> "alloc", path |-> path, durs |-> ds,
                             audio_kbps |-> a, brs |-> << >>]
    /\ tracker = Idle

\* one turn of "for d in durs": brs.append(br_k)
AllocSegment ==
    /\ allocator.at = "alloc"
    /\ allocator.path # "sw"
    /\ LET d == allocator.durs[Len(allocator.brs) + 1]
           b == br_k(video_bytes(tgt_part(target_size_mb),
                                 allocator.audio_kbps, d), d)
       IN  allocator' = [allocator EXCEPT
                           !.brs = Append(@, b),
                           !.at = IF Len(allocator.brs) + 1 = Len(allocator.durs)
                                  THEN "done" ELSE "alloc"]
    /\ UNCHANGED <<vars_job, jobs, prober, planner, tracker>>

\* the software path: tgt_bits, vid_bits, vid_br
AllocSingle ==
    /\ allocator.at = "alloc"
    /\ allocator.path = "sw"
    /\ LET d == allocator.durs[1]
       IN  allocator' = [allocator EXCEPT
                           !.brs = <<vid_br(vid_bits(target_size_mb,
                                                     allocator.audio_kbps, d), d)>>,
                           !.at = "done"]
    /\ UNCHANGED <<vars_job, jobs, prober, planner, tracker>>

NextAlloc ==
    \/ AllocSegment
    \/ AllocSingle

SpecAlloc == InitAlloc /\ [][NextAlloc]_vars

\* the bitrate the 0.5 MB minimum budget alone gives a segment of d seconds
FloorBitrate(d) == br_k(MIN_SEGMENT_BYTES, d)

\* C16: every allocated video bitrate, on the split paths and on the software
\* path, is at least the bitrate of the 0.5 MB minimum budget and is not 0
C16_BitrateAtLeastFloor ==
    \A i \in 1..Len(allocator.brs) :
        /\ allocator.brs[i] >= FloorBitrate(allocator.durs[i])
        /\ allocator.brs[i] > 0

\* the bytes a segment may take: half the target on the split paths, all of
\* it on the software path
Budget == IF allocator.path = "sw" THEN target_size_mb * MB_TO_BYTES
          ELSE tgt_part(target_size_mb)

\* video at the allocated bitrate plus the audio fit the budget of segment i
Fits(i) ==
    allocator.durs[i] * 1000 * (allocator.brs[i] + allocator.audio_kbps) <= 8 * Budget

RoomForVideo(i) ==
    audio_bytes(allocator.audio_kbps, allocator.durs[i])
        <= Budget - (IF allocator.path = "sw" THEN 0 ELSE MIN_SEGMENT_BYTES)

FormulaBitrate(share, audio_kbps, d, per_kbit) ==
    (max(MIN_SEGMENT_BYTES, share - audio_bytes(audio_kbps, d))
        * 8 * BITRATE_SAFETY_FACTOR[1])
    \div (per_kbit * d * BITRATE_SAFETY_FACTOR[2])

\* target_share_MB in bytes: half the target for a two-segment plan, the
\* whole target for the single pass
TargetShare ==
    IF allocator.path = "sw" THEN target_size_mb * MB_TO_BYTES
    ELSE (target_size_mb * MB_TO_BYTES) \div 2

----------------------------------------------------------------------------
(* The ProgressTracker on its own: the two monitors call update, the poll  *)
(* loop calls get_stats; both run under the tracker's lock, so each is one *)
(* step.  Times are whole ticks, speeds are counted in thousandths.        *)

\* segment durations are 1 .. MaxSeg ticks
MaxSeg == 1

\* update is called with elapsed times -1 .. MaxElapsed ticks
MaxElapsed == 2

\* update is called with frame rates 0 .. MaxFps
MaxFps == 1

\* update is called with speeds 0 .. MaxSpeed thousandths
MaxSpeed == 1

\* self.spd_a = self.spd_b = 0.001
INITIAL_SPEED == 1

ElapsedValues == (0 - 1)..MaxElapsed

\* faulty version: the speeds start at zero
ProgressTracker_ZeroSpeed(duration_a, duration_b) ==
    [dur_a |-> duration_a, dur_b |-> duration_b, total_dur |-> duration_a + duration_b,
     time_a |-> 0, time_b |-> 0, fps_a |-> 0, fps_b |-> 0,
     spd_a |-> 0, spd_b |-> 0]

\* ProgressTracker.__init__
ProgressTracker(duration_a, duration_b) ==
    [dur_a |-> duration_a, dur_b |-> duration_b, total_dur |-> duration_a + duration_b,
     time_a |-> 0, time_b |-> 0, fps_a |-> 0, fps_b |-> 0,
     spd_a |-> INITIAL_SPEED, spd_b |-> INITIAL_SPEED]

\* faulty version: fps and speed are overwritten even by a zero reading
update_Overwrite(t, is_a, time_val, fps_val, speed_val) ==
    IF is_a
    THEN [t EXCEPT !.time_a = time_val, !.fps_a = fps_val, !.spd_a = speed_val]
    ELSE [t EXCEPT !.time_b = time_val, !.fps_b = fps_val, !.spd_b = speed_val]

\* faulty version: the elapsed time is written to both segments
update_BothTimes(t, is_a, time_val, fps_val, speed_val) ==
    IF is_a
    THEN [t EXCEPT !.time_a = time_val, !.time_b = time_val,
                   !.fps_a = IF fps_val # 0 THEN fps_val ELSE @,
                   !.spd_a = IF speed_val # 0 THEN speed_val ELSE @]
    ELSE [t EXCEPT !.time_b = time_val, !.time_a = time_val,
                   !.fps_b = IF fps_val # 0 THEN fps_val ELSE @,
                   !.spd_b = IF speed_val # 0 THEN speed_val ELSE @]

\* ProgressTracker.update
update(t, is_a, time_val, fps_val, speed_val) ==
    IF is_a
    THEN [t EXCEPT !.time_a = time_val,
                   !.fps_a = IF fps_val # 0 THEN fps_val ELSE @,
                   !.spd_a = IF speed_val # 0 THEN speed_val ELSE @]
    ELSE [t EXCEPT !.time_b = time_val,
                   !.fps_b = IF fps_val # 0 THEN fps_val ELSE @,
                   !.spd_b = IF speed_val # 0 THEN speed_val ELSE @]

min(a, b) == IF a <= b THEN a ELSE b

\* faulty version: an elapsed time past the segment's end counts as nothing
clamp_Wrapping(time_val, dur) == IF time_val > dur THEN 0 ELSE time_val

\* t_a = min(self.time_a, self.dur_a)
clamp(time_val, dur) == min(time_val, dur)

\* ProgressTracker.get_stats: progress as a fraction <<num, den>> with
\* den > 0, total fps, eta; ZeroDivisionError on a zero speed
get_stats(t) ==
    LET t_a   == clamp(t.time_a, t.dur_a)
        t_b   == clamp(t.time_b, t.dur_b)
        prog  == IF (t_a + t_b) * 100 > 100 * t.total_dur THEN <<100, 1>>
                 ELSE <<(t_a + t_b) * 100, t.total_dur>>
        rem_a == max(0, t.dur_a - t.time_a)
        rem_b == max(0, t.dur_b - t.time_b)
    IN  IF t.spd_a = 0 \/ t.spd_b = 0
        THEN [exc |-> "ZeroDivisionError", prog |-> prog, fps |-> 0, eta |-> 0]
        ELSE [exc |-> "", prog |-> prog, fps |-> t.fps_a + t.fps_b,
              eta |-> max((rem_a * 1000) \div t.spd_a, (rem_b * 1000) \div t.spd_b)]

\* no update call yet, no reading of the present state yet
NoCall == [is_a |-> FALSE, time |-> 0, fps |-> 0, speed |-> 0, made |-> FALSE]

NoStats == [exc |-> "", prog |-> <<0, 1>>, fps |-> 0, eta |-> 0]

InitTracker ==
    /\ variant = "videocompress"
    /\ platform = "linux"
    /\ target_size_mb = 1
    /\ orig_bytes = 0
    /\ pc = "start"
    /\ phase = "none"
    /\ pending = NoRet
    /\ ret = NoRet
    /\ exit_code = "unset"
    /\ active_encoder = "unset"
    /\ probe_log = << >>
    /\ probe_out = "unset"
    /\ proc = [p \in ProcIds |-> NoProc]
    /\ launched = [p \in ProcIds |-> 0]
    /\ pa = "unbound"
    /\ pb = "unbound"
    /\ mon = [s \in {"A", "B"} |-> [st |-> "none", of |-> "unbound"]]
    /\ temp_dir = "none"
    /\ files = {}
    /\ calls = [split |-> 0, alloc |-> 0, mkdtemp |-> 0]
    /\ interrupted = "no"
    /\ jobs = Idle
    /\ prober = Idle
    /\ planner = Idle
    /\ allocator = Idle
    /\ \E duration_a, duration_b \in 1..MaxSeg :
          tracker = [obj |-> ProgressTracker(duration_a, duration_b),
                     last |-> NoCall,      \* the latest update call's arguments
                     fresh |-> FALSE,      \* get_stats ran since the latest update
                     shown |-> NoStats]    \* and this is what it returned

fps_of(t, is_a) == IF is_a THEN t.fps_a ELSE t.fps_b

spd_of(t, is_a) == IF is_a THEN t.spd_a ELSE t.spd_b

time_of(t, is_a) == IF is_a THEN t.time_a ELSE t.time_b

\* monitor_process of segment A (is_a) or B: tracker.update(is_a, secs, fps, spd)
MonitorUpdate ==
    /\ tracker # Idle
    /\ \E is_a \in BOOLEAN, time_val \in ElapsedValues,
          fps_val \in 0..MaxFps, speed_val \in 0..MaxSpeed :
          tracker' = [tracker EXCEPT
                        !.obj = update(@, is_a, time_val, fps_val, speed_val),
                        !.last = [is_a |-> is_a, time |-> time_val, fps |-> fps_val,
                                  speed |-> speed_val, made |-> TRUE],
                        !.fresh = FALSE,
                        !.shown = NoStats]
    /\ UNCHANGED <<vars_job, jobs, prober, planner, allocator>>

\* the poll loop: p, f, e = trk.get_stats()
GetStats ==
    /\ tracker # Idle
    /\ tracker' = [tracker EXCEPT !.fresh = TRUE, !.shown = get_stats(tracker.obj)]
    /\ UNCHANGED <<vars_job, jobs, prober, planner, allocator>>

NextTracker ==
    \/ MonitorUpdate
    \/ GetStats

SpecTracker == InitTracker /\ [][NextTracker]_vars

\* C18: whatever update calls were made, the progress get_stats returns lies
\* within [0, 100]
C18_ProgressInRange ==
    tracker.fresh =>
        /\ tracker.shown.prog[1] >= 0
        /\ tracker.shown.prog[1] <= 100 * tracker.shown.prog[2]

\* p <= q for fractions with positive denominators
Leq(p, q) == p[1] * q[2] <= q[1] * p[2]

\* C19: a step that lowers neither segment's elapsed time does not lower the
\* progress get_stats returns, so successive get_stats calls see progress go
\* up or stay while no elapsed time goes back
C19_ProgressMonotone ==
    [][(/\ tracker'.obj.time_a >= tracker.obj.time_a
        /\ tracker'.obj.time_b >= tracker.obj.time_b)
          => Leq(get_stats(tracker.obj).prog, get_stats(tracker'.obj).prog)]_vars

\* both monitors have reported, one of them past its segment's end, and
\* get_stats returned the progress of that state
C19_Witness ==
    /\ tracker.fresh
    /\ tracker.obj.time_a > tracker.obj.dur_a /\ tracker.obj.time_b > 0
    /\ tracker.shown.prog = get_stats(tracker.obj).prog
    /\ tracker.shown.prog[1] > 0

\* the step is an update call, with its arguments in tracker'.last
Updated == tracker'.last.made /\ ~tracker'.fresh

\* C20: update overwrites its segment's elapsed time and leaves the other
\* segment alone; a zero fps leaves the recorded fps as it was and a zero
\* speed the recorded speed; a recorded non-zero fps or speed never becomes
\* zero
C20_ZeroReadingKeepsLast ==
    [][Updated =>
         LET c == tracker'.last
             o == tracker.obj
             n == tracker'.obj
         IN  /\ time_of(n, c.is_a) = c.time
             /\ time_of(n, ~c.is_a) = time_of(o, ~c.is_a)
             /\ c.fps = 0 => fps_of(n, c.is_a) = fps_of(o, c.is_a)
             /\ c.speed = 0 => spd_of(n, c.is_a) = spd_of(o, c.is_a)
             /\ \A is_a \in BOOLEAN :
                   /\ fps_of(o, is_a) # 0 => fps_of(n, is_a) # 0
                   /\ spd_of(o, is_a) # 0 => spd_of(n, is_a) # 0]_vars

\* the latest update carried fps 0 and speed 0 and the segment's recorded
\* fps is still there
C20_Witness ==
    /\ tracker.last.made /\ tracker.last.fps = 0 /\ tracker.last.speed = 0
    /\ fps_of(tracker.obj, tracker.last.is_a) # 0
    /\ time_of(tracker.obj, tracker.last.is_a) > 0

----------------------------------------------------------------------------
(* get_stats over speeds that do not divide the remaining time: the tracker *)
(* is updated with speeds of 0 .. MaxStatSpeed thousandths and read back.   *)

MaxStatSpeed == 3

InitStats ==
    /\ variant = "videocompress"
    /\ platform = "linux"
    /\ target_size_mb = 1
    /\ orig_bytes = 0
    /\ pc = "start"
    /\ phase = "none"
    /\ pending = NoRet
    /\ ret = NoRet
    /\ exit_code = "unset"
    /\ active_encoder = "unset"
    /\ probe_log = << >>
    /\ probe_out = "unset"
    /\ proc = [p \in ProcIds |-> NoProc]
    /\ launched = [p \in ProcIds |-> 0]
    /\ pa = "unbound"
    /\ pb = "unbound"
    /\ mon = [s \in {"A", "B"} |-> [st |-> "none", of |-> "unbound"]]
    /\ temp_dir = "none"
    /\ files = {}
    /\ calls = [split |-> 0, alloc |-> 0, mkdtemp |-> 0]
    /\ interrupted = "no"
    /\ jobs = Idle
    /\ prober = Idle
    /\ planner = Idle
    /\ allocator = Idle
    /\ \E duration_a, duration_b \in 1..MaxSeg :
          tracker = [obj |-> ProgressTracker(duration_a, duration_b),
                     is_a |-> FALSE,       \* is_a of the latest update call
                     read |-> FALSE,       \* get_stats ran on this state
                     shown |-> NoStats]    \* and this is what it returned

\* tracker.update(is_a, secs, fps, spd)
StatsUpdate ==
    /\ \E is_a \in BOOLEAN, time_val \in ElapsedValues,
          fps_val \in 0..MaxFps, speed_val \in 0..MaxStatSpeed :
          tracker' = [obj |-> update(tracker.obj, is_a, time_val, fps_val, speed_val),
                      is_a |-> is_a,
                      read |-> FALSE,
                      shown |-> NoStats]
    /\ UNCHANGED <<vars_job, jobs, prober, planner, allocator>>

\* p, f, e = trk.get_stats()
StatsRead ==
    /\ tracker' = [tracker EXCEPT !.read = TRUE, !.shown = get_stats(tracker.obj)]
    /\ UNCHANGED <<vars_job, jobs, prober, planner, allocator>>

NextStats ==
    \/ StatsUpdate
    \/ StatsRead

SpecStats == InitStats /\ [][NextStats]_vars

\* the remaining time of each segment over its speed, as fractions
\* <<seconds * speed denominator, speed>> with the larger one first
Ratios(t) ==
    LET r_a == <<max(0, t.dur_a - t.time_a) * 1000, t.spd_a>>
        r_b == <<max(0, t.dur_b - t.time_b) * 1000, t.spd_b>>
    IN  IF Leq(r_b, r_a) THEN <<r_a, r_b>> ELSE <<r_b, r_a>>

\* C31 as stated: both speeds are non-zero, get_stats returns the sum of the
\* two frame rates and an ETA that is exactly the larger of the two ratios
\* remaining time / speed, each remaining time floored at 0
C31_EtaIsMaxRatio ==
    /\ tracker.obj.spd_a # 0 /\ tracker.obj.spd_b # 0
    /\ tracker.read =>
          /\ tracker.shown.exc = ""
          /\ tracker.shown.fps = tracker.obj.fps_a + tracker.obj.fps_b
          /\ tracker.shown.eta >= 0
          /\ tracker.shown.eta * Ratios(tracker.obj)[1][2] = Ratios(tracker.obj)[1][1]

\* C31 amended: both speeds are positive, get_stats returns the sum of the
\* two frame rates and, as ETA, the whole seconds of the larger ratio (int
\* cuts the fraction off)
C31_EtaIsWholeSecondsOfMaxRatio ==
    /\ tracker.obj.spd_a > 0 /\ tracker.obj.spd_b > 0
    /\ tracker.read =>
          LET r == Ratios(tracker.obj)[1] IN
          /\ tracker.shown.exc = ""
          /\ tracker.shown.fps = tracker.obj.fps_a + tracker.obj.fps_b
          /\ tracker.shown.eta >= 0
          /\ tracker.shown.eta * r[2] <= r[1]
          /\ r[1] < (tracker.shown.eta + 1) * r[2]

\* get_stats ran with time left on a segment whose speed does not divide it,
\* while both frame rates are recorded
C31_Witness ==
    /\ tracker.read
    /\ tracker.obj.fps_a > 0 /\ tracker.obj.fps_b > 0
    /\ tracker.shown.eta > 0
    /\ tracker.shown.eta * Ratios(tracker.obj)[1][2] < Ratios(tracker.obj)[1][1]

\* C33: a step that is the call update(is_a, ...) leaves the elapsed time,
\* fps and speed of the other segment as they were, and leaves both segment
\* durations and the total duration as they were
C33_UpdateTouchesOneSegment ==
    [][~tracker'.read =>
         LET is_a == tracker'.is_a IN
         /\ time_of(tracker'.obj, ~is_a) = time_of(tracker.obj, ~is_a)
         /\ fps_of(tracker'.obj, ~is_a) = fps_of(tracker.obj, ~is_a)
         /\ spd_of(tracker'.obj, ~is_a) = spd_of(tracker.obj, ~is_a)
         /\ tracker'.obj.dur_a = tracker.obj.dur_a
         /\ tracker'.obj.dur_b = tracker.obj.dur_b
         /\ tracker'.obj.total_dur = tracker.obj.total_dur]_vars

\* update was called for both segments: each holds an elapsed time, a frame
\* rate and a speed of its own, different from the other's
C33_Witness ==
    /\ ~tracker.read
    /\ tracker.obj.time_a > 0 /\ tracker.obj.time_b > tracker.obj.time_a
    /\ tracker.obj.fps_a > 0 /\ tracker.obj.fps_b > 0
    /\ tracker.obj.spd_a > INITIAL_SPEED /\ tracker.obj.spd_b > tracker.obj.spd_a

----------------------------------------------------------------------------
(* The trackers of the two passes: compress_video binds trk to a new        *)
(* ProgressTracker before each pass and hands it to the two monitor threads *)
(* of that pass.  Objects live in a heap and are named by their index.      *)

Passes == {1, 2}

MonitorIds == { <<n, s>> : n \in Passes, s \in {"A", "B"} }

\* what one progress line can carry: an elapsed time within the segment, a
\* frame rate and a speed, or zero where the token is missing or zero
Readings == { <<time_val, fps_val, speed_val>> :
                time_val \in 0..MaxSeg, fps_val \in {0, MaxFps},
                speed_val \in {0, MaxSpeed + 1} }

\* faulty version: the tracker of the earlier pass is used again
new_tracker_Reuse(heap, trk, duration_a, duration_b) ==
    IF trk = 0
    THEN [heap |-> Append(heap, ProgressTracker(duration_a, duration_b)),
          trk |-> Len(heap) + 1]
    ELSE [heap |-> heap, trk |-> trk]

\* trk = ProgressTracker(durs[0], durs[1]): a new object, and trk names it
new_tracker(heap, trk, duration_a, duration_b) ==
    [heap |-> Append(heap, ProgressTracker(duration_a, duration_b)),
     trk |-> Len(heap) + 1]

InitPhases ==
    /\ variant \in Variants
    /\ platform = "linux"
    /\ target_size_mb = 1
    /\ orig_bytes = 0
    /\ pc = "start"
    /\ phase = "none"
    /\ pending = NoRet
    /\ ret = NoRet
    /\ exit_code = "unset"
    /\ active_encoder = "unset"
    /\ probe_log = << >>
    /\ probe_out = "unset"
    /\ proc = [p \in ProcIds |-> NoProc]
    /\ launched = [p \in ProcIds |-> 0]
    /\ pa = "unbound"
    /\ pb = "unbound"
    /\ mon = [s \in {"A", "B"} |-> [st |-> "none", of |-> "unbound"]]
    /\ temp_dir = "none"
    /\ files = {}
    /\ calls = [split |-> 0, alloc |-> 0, mkdtemp |-> 0]
    /\ interrupted = "no"
    /\ jobs = Idle
    /\ prober = Idle
    /\ planner = Idle
    /\ allocator = Idle
    /\ \E duration_a, duration_b \in 1..MaxSeg :
          tracker = [at |-> "new", pass |-> 1,
                     durs |-> <<duration_a, duration_b>>,
                     heap |-> << >>,
                     trk |-> 0,
                     mons |-> [m \in MonitorIds |-> [st |-> "none", trk |-> 0]]]

\* trk = ProgressTracker(durs[0], durs[1])
PhaseNewTracker ==
    /\ tracker.at = "new"
    /\ LET n == new_tracker(tracker.heap, tracker.trk, tracker.durs[1], tracker.durs[2])
       IN  tracker' = [tracker EXCEPT !.at = "start", !.heap = n.heap, !.trk = n.trk]
    /\ UNCHANGED <<vars_job, jobs, prober, planner, allocator>>

\* t1 = threading.Thread(target=monitor_process, args=(pa, trk, True)), the
\* same for t2, t1.start(); t2.start(): each thread keeps the object trk
\* names now
PhaseStartMonitors ==
    /\ tracker.at = "start"
    /\ tracker' = [tracker EXCEPT
                     !.at = "poll",
                     !.mons = [m \in MonitorIds |->
                                 IF m[1] = tracker.pass
                                 THEN [st |-> "running", trk |-> tracker.trk]
                                 ELSE @[m]]]
    /\ UNCHANGED <<vars_job, jobs, prober, planner, allocator>>

\* monitor_process: tracker.update(is_a, secs, fps, spd) on its own argument
PhaseMonitorUpdate(m) ==
    /\ tracker.mons[m].st = "running"
    /\ \E r \in Readings :
          tracker' = [tracker EXCEPT
                        !.heap[tracker.mons[m].trk] = update(@, m[2] = "A", r[1], r[2], r[3])]
    /\ UNCHANGED <<vars_job, jobs, prober, planner, allocator>>

\* monitor_process: read(1) returns nothing and the process has exited
PhaseMonitorEnd(m) ==
    /\ tracker.mons[m].st = "running"
    /\ tracker' = [tracker EXCEPT !.mons[m].st = "done"]
    /\ UNCHANGED <<vars_job, jobs, prober, planner, allocator>>

\* the poll loop has ended; t1.join(); t2.join(); the return codes decide
\* between "Pass n Failed" and what follows the pass
PhaseJoin ==
    /\ tracker.at = "poll"
    /\ \A m \in MonitorIds : m[1] = tracker.pass => tracker.mons[m].st = "done"
    /\ \E failed \in BOOLEAN :
          tracker' = [tracker EXCEPT
                        !.at = IF failed \/ tracker.pass = 2 THEN "returned" ELSE "new",
                        !.pass = IF failed \/ tracker.pass = 2 THEN @ ELSE 2]
    /\ UNCHANGED <<vars_job, jobs, prober, planner, allocator>>

NextPhases ==
    \/ PhaseNewTracker
    \/ PhaseStartMonitors
    \/ \E m \in MonitorIds : PhaseMonitorUpdate(m)
    \/ \E m \in MonitorIds : PhaseMonitorEnd(m)
    \/ PhaseJoin

SpecPhases == InitPhases /\ [][NextPhases]_vars

\* nothing was recorded in tracker object t since it was made
Untouched(t) ==
    /\ t.time_a = 0 /\ t.time_b = 0
    /\ t.fps_a = 0 /\ t.fps_b = 0
    /\ t.spd_a = INITIAL_SPEED /\ t.spd_b = INITIAL_SPEED

\* C32: until the monitors of pass 2 run, the tracker trk names in pass 2
\* has elapsed time 0, fps 0 and the initial speed for both segments; the
\* monitors of pass 1 hold another object than the one trk names in pass 2,
\* and none of them is running any more
C32_FreshTrackerPerPhase ==
    (tracker.pass = 2 /\ tracker.at # "new") =>
        /\ (tracker.at = "start" => Untouched(tracker.heap[tracker.trk]))
        /\ \A m \in MonitorIds :
              m[1] = 1 => /\ tracker.mons[m].trk # tracker.trk
                          /\ tracker.mons[m].st # "running"

\* pass 2 is about to start its monitors on a tracker without readings while
\* the tracker of pass 1 holds the times, frame rates and speeds of pass 1
C32_Witness ==
    /\ tracker.pass = 2 /\ tracker.at = "start"
    /\ Untouched(tracker.heap[tracker.trk])
    /\ LET old == tracker.heap[tracker.mons[<<1, "A">>].trk]
       IN  /\ old.time_a > 0 /\ old.time_b > 0
           /\ old.fps_a > 0 /\ old.fps_b > 0
           /\ old.spd_a # INITIAL_SPEED /\ old.spd_b # INITIAL_SPEED

----------------------------------------------------------------------------
(* monitor_process on its own: each line of an encoder's stderr is searched *)
(* for the tokens time=, fps= and speed= and handed to the tracker.         *)

\* the minutes field of a time token is 0 .. MaxMinutes
MaxMinutes == 1

\* a token that the line does not carry, a token with its text
NoToken == [has |-> FALSE, v |-> 0]

Token(v) == [has |-> TRUE, v |-> v]

NoClock == [has |-> FALSE, v |-> <<0, 0, 0>>]

\* time=H:MM:SS.ms as <<h, m, s>>
Clocks == { <<0, m, s>> : m \in 0..MaxMinutes, s \in 0..MaxElapsed }

\* speed=<number>x in thousandths: 0.00x, 1.00x, ...
Speeds == { 1000 * k : k \in 0..MaxSpeed }

\* the lines an encoder may print, token by token
Lines ==
    [time  : {NoClock} \cup { Token(c) : c \in Clocks },
     fps   : {NoToken} \cup { Token(f) : f \in 0..MaxFps },
     speed : {NoToken} \cup { Token(x) : x \in Speeds }]

\* h, m, s = map(float, t_match.group(1).split(':')); secs = h*3600 + m*60 + s
secs(c) == c[1] * 3600 + c[2] * 60 + c[3]

\* fps = float(f_match.group(1)) if f_match else 0.0
fps_arg(line) == IF line.fps.has THEN line.fps.v ELSE 0

\* spd = float(s_match.group(1)) if s_match else 0.001
spd_arg(line) == IF line.speed.has THEN line.speed.v ELSE INITIAL_SPEED

\* the body of "if buf.strip():" for one line of segment is_a
process_line(t, is_a, line) ==
    IF line.time.has
    THEN update(t, is_a, secs(line.time.v), fps_arg(line), spd_arg(line))
    ELSE t

\* no line read yet
NoLine == [is_a |-> FALSE, time |-> NoClock, fps |-> NoToken, speed |-> NoToken,
           made |-> FALSE]

InitMonitor ==
    /\ variant = "videocompress"
    /\ platform = "linux"
    /\ target_size_mb = 1
    /\ orig_bytes = 0
    /\ pc = "start"
    /\ phase = "none"
    /\ pending = NoRet
    /\ ret = NoRet
    /\ exit_code = "unset"
    /\ active_encoder = "unset"
    /\ probe_log = << >>
    /\ probe_out = "unset"
    /\ proc = [p \in ProcIds |-> NoProc]
    /\ launched = [p \in ProcIds |-> 0]
    /\ pa = "unbound"
    /\ pb = "unbound"
    /\ mon = [s \in {"A", "B"} |-> [st |-> "none", of |-> "unbound"]]
    /\ temp_dir = "none"
    /\ files = {}
    /\ calls = [split |-> 0, alloc |-> 0, mkdtemp |-> 0]
    /\ interrupted = "no"
    /\ jobs = Idle
    /\ prober = Idle
    /\ planner = Idle
    /\ allocator = Idle
    /\ \E duration_a, duration_b \in 1..MaxSeg :
          tracker = [obj |-> ProgressTracker(duration_a, duration_b),
                     line |-> NoLine]      \* the latest line and whose it was

\* monitor_process of segment A (is_a) or B: one line was read up to its
\* '\r' or '\n' and is processed
MonitorLine ==
    /\ tracker # Idle
    /\ \E is_a \in BOOLEAN, line \in Lines :
          tracker' = [obj |-> process_line(tracker.obj, is_a, line),
                      line |-> [is_a |-> is_a, time |-> line.time, fps |-> line.fps,
                                speed |-> line.speed, made |-> TRUE]]
    /\ UNCHANGED <<vars_job, jobs, prober, planner, allocator>>

NextMonitor == MonitorLine

SpecMonitor == InitMonitor /\ [][NextMonitor]_vars

\* C21: a processed line leaves alone every tracker field of its segment
\* whose token it does not carry: without a time token the elapsed time,
\* without an fps token the fps, without a speed token the speed
C21_MissingTokenKeepsField ==
    [][LET l == tracker'.line
           o == tracker.obj
           n == tracker'.obj
       IN  /\ ~l.time.has => time_of(n, l.is_a) = time_of(o, l.is_a)
           /\ ~l.fps.has => fps_of(n, l.is_a) = fps_of(o, l.is_a)
           /\ ~l.speed.has => spd_of(n, l.is_a) = spd_of(o, l.is_a)]_vars

----------------------------------------------------------------------------
(* The tracker's lock: update and get_stats statement by statement, the two *)
(* monitor threads and the polling loop interleaved.                        *)

Threads == {"A", "B"}

\* faulty version: the lock does not keep anybody out
can_acquire_Always(lock) == TRUE

\* "with self.lock:" is entered when no thread holds the lock
can_acquire(lock) == lock = "free"

\* self.time_a = time_val / self.time_b = time_val
write_time(t, is_a, time_val) ==
    IF is_a THEN [t EXCEPT !.time_a = time_val] ELSE [t EXCEPT !.time_b = time_val]

\* if fps_val: self.fps_a = fps_val / self.fps_b = fps_val
write_fps(t, is_a, fps_val) ==
    IF fps_val = 0 THEN t
    ELSE IF is_a THEN [t EXCEPT !.fps_a = fps_val] ELSE [t EXCEPT !.fps_b = fps_val]

\* if speed_val: self.spd_a = speed_val / self.spd_b = speed_val
write_spd(t, is_a, speed_val) ==
    IF speed_val = 0 THEN t
    ELSE IF is_a THEN [t EXCEPT !.spd_a = speed_val] ELSE [t EXCEPT !.spd_b = speed_val]

\* a monitor thread outside update, the polling loop outside get_stats
NoUpdate == [at |-> "idle", time |-> 0, fps |-> 0, speed |-> 0]

NoRead == [at |-> "idle", result |-> NoStats]

InitLock ==
    /\ variant = "videocompress"
    /\ platform = "linux"
    /\ target_size_mb = 1
    /\ orig_bytes = 0
    /\ pc = "start"
    /\ phase = "none"
    /\ pending = NoRet
    /\ ret = NoRet
    /\ exit_code = "unset"
    /\ active_encoder = "unset"
    /\ probe_log = << >>
    /\ probe_out = "unset"
    /\ proc = [p \in ProcIds |-> NoProc]
    /\ launched = [p \in ProcIds |-> 0]
    /\ pa = "unbound"
    /\ pb = "unbound"
    /\ mon = [s \in {"A", "B"} |-> [st |-> "none", of |-> "unbound"]]
    /\ temp_dir = "none"
    /\ files = {}
    /\ calls = [split |-> 0, alloc |-> 0, mkdtemp |-> 0]
    /\ interrupted = "no"
    /\ jobs = Idle
    /\ prober = Idle
    /\ planner = Idle
    /\ allocator = Idle
    /\ tracker = [obj |-> ProgressTracker(MaxSeg, MaxSeg),
                  lock |-> "free",
                  upd |-> [s \in Threads |-> NoUpdate],
                  rd |-> NoRead,
                  \* the tracker as the completed update calls leave it, and
                  \* the values it had during the get_stats call under way
                  committed |-> ProgressTracker(MaxSeg, MaxSeg),
                  snaps |-> {}]

\* tracker.update(is_a, secs, fps, spd) is called and enters "with self.lock:"
UpdAcquire(s) ==
    /\ tracker # Idle
    /\ tracker.upd[s].at = "idle"
    /\ can_acquire(tracker.lock)
    /\ \E time_val \in 0..MaxElapsed, fps_val \in 0..MaxFps, speed_val \in Speeds :
          tracker' = [tracker EXCEPT
                        !.lock = s,
                        !.upd[s] = [at |-> "w_time", time |-> time_val,
                                    fps |-> fps_val, speed |-> speed_val]]
    /\ UNCHANGED <<vars_job, jobs, prober, planner, allocator>>

\* update: the assignment of the elapsed time
UpdTime(s) ==
    /\ tracker # Idle
    /\ tracker.upd[s].at = "w_time"
    /\ tracker' = [tracker EXCEPT
                     !.obj = write_time(@, s = "A", tracker.upd[s].time),
                     !.upd[s].at = "w_fps"]
    /\ UNCHANGED <<vars_job, jobs, prober, planner, allocator>>

\* update: the conditional assignment of the fps
UpdFps(s) ==
    /\ tracker # Idle
    /\ tracker.upd[s].at = "w_fps"
    /\ tracker' = [tracker EXCEPT
                     !.obj = write_fps(@, s = "A", tracker.upd[s].fps),
                     !.upd[s].at = "w_spd"]
    /\ UNCHANGED <<vars_job, jobs, prober, planner, allocator>>

\* update: the conditional assignment of the speed
UpdSpd(s) ==
    /\ tracker # Idle
    /\ tracker.upd[s].at = "w_spd"
    /\ tracker' = [tracker EXCEPT
                     !.obj = write_spd(@, s = "A", tracker.upd[s].speed),
                     !.upd[s].at = "release"]
    /\ UNCHANGED <<vars_job, jobs, prober, planner, allocator>>

\* update: the end of the with block; the call is complete
UpdRelease(s) ==
    /\ tracker # Idle
    /\ tracker.upd[s].at = "release"
    /\ LET c == update(tracker.committed, s = "A", tracker.upd[s].time,
                       tracker.upd[s].fps, tracker.upd[s].speed)
       IN  tracker' = [tracker EXCEPT
                         !.lock = "free",
                         !.upd[s] = NoUpdate,
                         !.committed = c,
                         !.snaps = IF tracker.rd.at = "idle" THEN {} ELSE @ \cup {c}]
    /\ UNCHANGED <<vars_job, jobs, prober, planner, allocator>>

\* trk.get_stats() is called and enters "with self.lock:"
RdAcquire ==
    /\ tracker # Idle
    /\ tracker.rd.at = "idle"
    /\ can_acquire(tracker.lock)
    /\ tracker' = [tracker EXCEPT !.lock = "R", !.rd.at = "r_prog",
                                  !.snaps = {tracker.committed}]
    /\ UNCHANGED <<vars_job, jobs, prober, planner, allocator>>

\* get_stats: t_a, t_b and prog
RdProg ==
    /\ tracker # Idle
    /\ tracker.rd.at = "r_prog"
    /\ tracker' = [tracker EXCEPT !.rd.result.prog = get_stats(tracker.obj).prog,
                                  !.rd.at = "r_fps"]
    /\ UNCHANGED <<vars_job, jobs, prober, planner, allocator>>

\* get_stats: fps = self.fps_a + self.fps_b
RdFps ==
    /\ tracker # Idle
    /\ tracker.rd.at = "r_fps"
    /\ tracker' = [tracker EXCEPT !.rd.result.fps = get_stats(tracker.obj).fps,
                                  !.rd.at = "r_eta"]
    /\ UNCHANGED <<vars_job, jobs, prober, planner, allocator>>

\* get_stats: rem_a, rem_b and eta
RdEta ==
    /\ tracker # Idle
    /\ tracker.rd.at = "r_eta"
    /\ tracker' = [tracker EXCEPT !.rd.result.eta = get_stats(tracker.obj).eta,
                                  !.rd.at = "release"]
    /\ UNCHANGED <<vars_job, jobs, prober, planner, allocator>>

\* get_stats: return prog, fps, int(eta) and the end of the with block
RdRelease ==
    /\ tracker # Idle
    /\ tracker.rd.at = "release"
    /\ tracker' = [tracker EXCEPT !.lock = "free", !.rd = NoRead, !.snaps = {}]
    /\ UNCHANGED <<vars_job, jobs, prober, planner, allocator>>

NextLock ==
    \/ \E s \in Threads : UpdAcquire(s)
    \/ \E s \in Threads : UpdTime(s)
    \/ \E s \in Threads : UpdFps(s)
    \/ \E s \in Threads : UpdSpd(s)
    \/ \E s \in Threads : UpdRelease(s)
    \/ RdAcquire
    \/ RdProg
    \/ RdFps
    \/ RdEta
    \/ RdRelease

SpecLock == InitLock /\ [][NextLock]_vars

\* C26: what get_stats is about to return is get_stats of the tracker as
\* some number of complete update calls had left it at a moment of the
\* get_stats call, whatever the interleaving; and whenever no thread is
\* inside update or get_stats the tracker holds exactly what the complete
\* update calls wrote
C26_ReadsAreSnapshots ==
    /\ tracker.rd.at = "release" =>
          \E snap \in tracker.snaps : tracker.rd.result = get_stats(snap)
    /\ tracker.lock = "free" => tracker.obj = tracker.committed

\* get_stats is about to return after both monitors completed update calls
\* that changed elapsed time, fps and speed, with the second monitor waiting
C26_Witness ==
    /\ tracker.rd.at = "release"
    /\ tracker.committed.time_a > 0 /\ tracker.committed.time_b > 0
    /\ tracker.committed.fps_a > 0 /\ tracker.committed.spd_b > INITIAL_SPEED
    /\ tracker.rd.result = get_stats(tracker.committed)
    /\ tracker.rd.result.prog[1] > 0

----------------------------------------------------------------------------
(* Cleanup on its own: the finally block of the hevc_nvenc branch, run     *)
(* twice in a row on a job directory with any of its files present.        *)

\* what may lie around when cleanup starts: the job's files in its temporary
\* directory, logs in the working directory, the output file
Leftovers ==
    {<<"tmp", "p1", ".mp4">>, <<"tmp", "p2", ".mp4">>, <<"tmp", "list", ".txt">>}
    \cup PassLogs("tmp", log_a) \cup PassLogs("tmp", log_b)
    \cup LOG_FILES_TO_CLEAN \cup {output_path}

\* shutil.rmtree(temp_dir) raises FileNotFoundError when the directory is gone
rmtree_error(dir) == IF dir = "exists" THEN "" ELSE "FileNotFoundError"

\* faulty version: the handler lets the error through
swallowed_Nothing(exc) == FALSE

\* "except OSError: pass": FileNotFoundError and PermissionError are OSErrors
swallowed(exc) == exc \in {"OSError", "FileNotFoundError", "PermissionError"}

InitCleanup ==
    /\ variant = "videocompress"
    /\ platform = "linux"
    /\ target_size_mb = 1
    /\ orig_bytes = 0
    /\ phase = "none"
    /\ pending = NoRet
    /\ ret = NoRet
    /\ exit_code = "unset"
    /\ active_encoder = "unset"
    /\ probe_log = << >>
    /\ probe_out = "unset"
    /\ proc = [p \in ProcIds |-> NoProc]
    /\ launched = [p \in ProcIds |-> 0]
    /\ pa = "unbound"
    /\ pb = "unbound"
    /\ mon = [s \in {"A", "B"} |-> [st |-> "none", of |-> "unbound"]]
    /\ calls = [split |-> 0, alloc |-> 0, mkdtemp |-> 0]
    /\ interrupted = "no"
    /\ jobs = Idle
    /\ prober = Idle
    /\ planner = Idle
    /\ allocator = Idle
    /\ pc = "cleanup1_rmtree"
    /\ temp_dir = "exists"
    /\ files \in SUBSET Leftovers
    /\ tracker = Idle

\* try: shutil.rmtree(temp_dir) except OSError: pass
CleanupRmtree ==
    /\ pc \in {"cleanup1_rmtree", "cleanup2_rmtree"}
    /\ LET exc == rmtree_error(temp_dir) IN
       IF exc = ""
       THEN /\ temp_dir' = "removed"
            /\ files' = rmtree(files)
            /\ pc' = IF pc = "cleanup1_rmtree" THEN "cleanup1_logs" ELSE "cleanup2_logs"
            /\ UNCHANGED ret
       ELSE IF swallowed(exc)
       THEN /\ pc' = IF pc = "cleanup1_rmtree" THEN "cleanup1_logs" ELSE "cleanup2_logs"
            /\ UNCHANGED <<temp_dir, files, ret>>
       ELSE /\ ret' = Raise(exc)
            /\ pc' = "raised"
            /\ UNCHANGED <<temp_dir, files>>
    /\ UNCHANGED <<units, inputs, orig_bytes, phase, pending, exit_code, active_encoder,
                   probes, children, calls, interrupted>>

\* clean_log_file()
CleanupLogs ==
    /\ pc \in {"cleanup1_logs", "cleanup2_logs"}
    /\ files' = clean_log_file(files, {})
    /\ pc' = IF pc = "cleanup1_logs" THEN "cleanup2_rmtree" ELSE "cleaned"
    /\ UNCHANGED <<units, inputs, orig_bytes, phase, pending, ret, exit_code,
                   active_encoder, probes, children, temp_dir, calls, interrupted>>

NextCleanup ==
    \/ CleanupRmtree
    \/ CleanupLogs

SpecCleanup == InitCleanup /\ [][NextCleanup]_vars

\* C28: cleanup never raises, and every step of the second cleanup of a job
\* leaves the files and the temporary directory as the first one left them
C28_CleanupIdempotent ==
    /\ [](ret.kind # "raise" /\ pc # "raised")
    /\ [][(pc \in {"cleanup2_rmtree", "cleanup2_logs"}) =>
             (files' = files /\ temp_dir' = temp_dir)]_vars

\* both cleanups ran on a job that had segment files and logs; what is not
\* the job's is still there
C28_Witness ==
    /\ pc = "cleaned"
    /\ temp_dir = "removed"
    /\ files = {output_path}

----------------------------------------------------------------------------
(* Two jobs side by side *)

\* two compress_video calls of the same script on the two-pass split path,
\* started in the same working directory
JobIds == {1, 2}

\* the names tempfile.mkdtemp(prefix="vidcomp_") can return
TempNames == {"vidcomp_1", "vidcomp_2"}

\* where job j keeps its files: os.path.join(temp_dir, ...) in videocompress.py,
\* bare names resolved against the working directory in 50mb.py
job_dir(j) == IF variant = "videocompress" THEN jobs.dir[j] ELSE "cwd"

\* the files ffmpeg writes for -passlogfile log_a and log_b
job_logs(j) == PassLogs(job_dir(j), log_a) \cup PassLogs(job_dir(j), log_b)

job_segments(j) == { <<job_dir(j), "p1", ".mp4">>, <<job_dir(j), "p2", ".mp4">> }

job_list(j) == <<job_dir(j), "list", ".txt">>

\* the accesses of job j to files that another job has created
Touch(j, op, F) ==
    { [by |-> j, op |-> op, file |-> f] :
        f \in { g \in F : \E k \in JobIds \ {j} : <<g, k>> \in jobs.owned } }

\* one step of job j: it reads, creates (or overwrites) and removes files
JobStep(j, to, dir, reads, writes, deletes) ==
    /\ jobs' = [jobs EXCEPT
                  !.at[j] = to,
                  !.dir[j] = dir,
                  !.owned = { p \in @ : p[1] \notin writes \cup deletes }
                              \cup { <<f, j>> : f \in writes },
                  !.foreign = @ \cup Touch(j, "read", reads \cap files)
                                \cup Touch(j, "overwrite", writes \cap files)
                                \cup Touch(j, "delete", deletes \cap files)]
    /\ files' = (files \ deletes) \cup writes
    /\ UNCHANGED <<inputs, orig_bytes, pc, phase, pending, ret, exit_code,
                   active_encoder, probes, children, temp_dir, calls, interrupted,
                   prober, planner, allocator, tracker>>

\* what clean_log_file(prefixes) removes
cleaned(prefixes) == files \ clean_log_file(files, prefixes)

InitJobs ==
    /\ variant \in Variants
    /\ platform = "linux"
    /\ target_size_mb = 1
    /\ orig_bytes = 0
    /\ pc = "start"
    /\ phase = "none"
    /\ pending = NoRet
    /\ ret = NoRet
    /\ exit_code = "unset"
    /\ active_encoder = "unset"
    /\ probe_log = << >>
    /\ probe_out = "unset"
    /\ proc = [p \in ProcIds |-> NoProc]
    /\ launched = [p \in ProcIds |-> 0]
    /\ pa = "unbound"
    /\ pb = "unbound"
    /\ mon = [s \in {"A", "B"} |-> [st |-> "none", of |-> "unbound"]]
    /\ temp_dir = "none"
    /\ calls = [split |-> 0, alloc |-> 0, mkdtemp |-> 0]
    /\ interrupted = "no"
    /\ files \in {{}, LOG_FILES_TO_CLEAN}
    /\ jobs = [at |-> [j \in JobIds |-> "enter"],
               dir |-> [j \in JobIds |-> "none"],
               owned |-> {},
               foreign |-> {}]
    /\ prober = Idle
    /\ planner = Idle
    /\ allocator = Idle
    /\ tracker = Idle

\* clean_log_file() on entry
JobEnter(j) ==
    /\ jobs.at[j] = "enter"
    /\ JobStep(j, "prepare", jobs.dir[j], {}, {}, cleaned({}))

\* videocompress.py: temp_dir = tempfile.mkdtemp(prefix="vidcomp_"), a
\* directory that does not exist yet;
\* 50mb.py: clean_log_file([log_a, log_b])
JobPrepare(j) ==
    /\ jobs.at[j] = "prepare"
    /\ IF variant = "videocompress"
       THEN \E d \in TempNames \ { jobs.dir[k] : k \in JobIds } :
               JobStep(j, "pass1", d, {}, {}, {})
       ELSE JobStep(j, "pass1", jobs.dir[j], {}, {}, cleaned({log_a, log_b}))

\* pass 1: both encoders write their pass logs
JobPass1(j) ==
    /\ jobs.at[j] = "pass1"
    /\ JobStep(j, "pass2", jobs.dir[j], {}, job_logs(j), {})

\* pass 2: both encoders read their pass logs and write the segments; an
\* encoder that finds no pass log exits non-zero and the job returns
\* "Pass 2 Failed" (through the finally block in videocompress.py)
JobPass2(j) ==
    /\ jobs.at[j] = "pass2"
    /\ IF job_logs(j) \subseteq files
       THEN JobStep(j, "list", jobs.dir[j], job_logs(j), job_segments(j), {})
       ELSE JobStep(j, IF variant = "videocompress" THEN "cleanup" ELSE "returned",
                    jobs.dir[j], job_logs(j), {}, {})

\* with open(list_path, "w")
JobList(j) ==
    /\ jobs.at[j] = "list"
    /\ JobStep(j, "concat", jobs.dir[j], {}, {job_list(j)}, {})

\* ffmpeg -f concat -i list_path reads the manifest and both segments
JobConcat(j) ==
    /\ jobs.at[j] = "concat"
    /\ JobStep(j, "cleanup", jobs.dir[j], {job_list(j)} \cup job_segments(j), {}, {})

\* videocompress.py: finally: shutil.rmtree(temp_dir); clean_log_file()
\* 50mb.py: clean_log_file([log_a, log_b]); os.remove of p1.mp4, p2.mp4, list.txt
JobCleanup(j) ==
    /\ jobs.at[j] = "cleanup"
    /\ IF variant = "videocompress"
       THEN JobStep(j, "post", "none", {}, {},
                    { f \in files : f[1] = jobs.dir[j] } \cup cleaned({}))
       ELSE JobStep(j, "post", jobs.dir[j], {}, {},
                    cleaned({log_a, log_b}) \cup job_segments(j) \cup {job_list(j)})

\* clean_log_file() before the output is checked
JobFinish(j) ==
    /\ jobs.at[j] = "post"
    /\ JobStep(j, "returned", jobs.dir[j], {}, {}, cleaned({}))

NextJobs ==
    \/ \E j \in JobIds : JobEnter(j)
    \/ \E j \in JobIds : JobPrepare(j)
    \/ \E j \in JobIds : JobPass1(j)
    \/ \E j \in JobIds : JobPass2(j)
    \/ \E j \in JobIds : JobList(j)
    \/ \E j \in JobIds : JobConcat(j)
    \/ \E j \in JobIds : JobCleanup(j)
    \/ \E j \in JobIds : JobFinish(j)

SpecJobs == InitJobs /\ [][NextJobs]_vars

\* C25: no job reads, overwrites or deletes a segment file, pass log or
\* manifest created by the other job, and every such file of a job lies in
\* that job's own temporary directory, which is no other job's directory
C25_JobsKeepApart ==
    /\ jobs.foreign = {}
    /\ \A p \in jobs.owned :
          /\ p[1][1] = jobs.dir[p[2]]
          /\ p[1][1] \in TempNames
          /\ \A k \in JobIds \ {p[2]} : jobs.dir[k] # p[1][1]

====
